---------------------------- MODULE Spec2Model ----------------------------
(***************************************************************************)
(* Model of the MPL code generator (codegen.rs) and of its execution host  *)
(* (runner.rs).                                                            *)
(*                                                                         *)
(* Conventions                                                             *)
(*  - Ty is {"I32", "F64"} (codegen.rs Ty).                                *)
(*  - A NumExpr is a record tagged by k: Int, Float, Binary, Var, Neg.     *)
(*  - An f64 literal is carried as an integer number of halves (3 = 1.5);  *)
(*    the generator never looks at the value of a literal.                 *)
(*  - An instruction is a record [op, arg]; arg is 0 when the instruction  *)
(*    has no immediate.                                                    *)
(*  - A Result is [ok |-> TRUE, ...] or [ok |-> FALSE, err |-> ...].       *)
(***************************************************************************)
EXTENDS Integers, Sequences, FiniteSets, TLC

VARIABLES
    pc,         \* position of the component under study
    function,   \* the ParserFunction being lowered: [name, body, variables]
    expr,       \* the NumExpr handed to the Type Resolver / Expression Lowering
    target,     \* the Ty asked of gen_expression_as
    ety,        \* result of infer_type
    res,        \* Result of gen_expression_as / gen_expression
    gen,        \* the CodeGenerator struct (sections and bookkeeping)
    call,       \* the last push_text call: arguments, state before, Blob returned
    requested,  \* text -> alignment of the latest push_text call for that text
    prog_name,  \* the module name handed to generate_wasm
    prog,       \* the Program handed to generate_wasm
    next_fn,    \* generate_wasm's position in the function list it is walking
    outs,       \* the Results of the generate_wasm invocations made so far
    files,      \* the files written by the compile mode, in the order written
    wasm,       \* the module handed to run_wasm_bytes
    host,       \* the store: memory, heap_ptr_cell, globals, standard output, error
    guest,      \* the running guest: call frames and operand stack
    hcall       \* the last host function call: arguments, store before, results

vars == <<pc, function, expr, target, ety, res, gen, call, requested,
          prog_name, prog, next_fn, outs, files, wasm, host, guest, hcall>>

runVars == <<wasm, host, guest, hcall>>

progVars == <<prog_name, prog, next_fn, outs, files>>

exprVars == <<function, expr, target, ety, res>>

poolVars == <<call, requested>>

\* ------------------------------------------------------------------ bounds

\* Largest number of nodes of an enumerated NumExpr tree.
MaxNodes == 5

\* Largest number of push_text calls made on one pool.
MaxPushes == 3

\* Largest number of statements in the body of an enumerated entry function.
MaxBody == 2

\* Number of times the same Program is compiled, each time by a new generator.
MaxInvocations == 2

\* Largest number of host-call units in the entry function of a module run
\* from a file.
MaxGuestCalls == 2

\* ------------------------------------------------------------- AST (parser.rs)

Tys == {"I32", "F64"}

BinOps == {"Add", "Sub", "Mul", "Div"}

Variable(name, ty) == [name |-> name, ty |-> ty]

IntE(i) == [k |-> "Int", v |-> i]

FloatE(r) == [k |-> "Float", v |-> r]

BinaryE(op, left, right) == [k |-> "Binary", op |-> op, left |-> left, right |-> right]

VarE(var, pos) == [k |-> "Var", var |-> var, pos |-> pos]

NegE(inner) == [k |-> "Neg", inner |-> inner]

\* variables.iter().position(|v| v.name == name); 0 stands for None, and a
\* found position is returned 1-based (slot index + 1).
find_variable_index(variables, name) ==
    LET hits == {i \in 1..Len(variables) : variables[i].name = name}
    IN  IF hits = {} THEN 0
        ELSE CHOOSE i \in hits : \A j \in hits : i <= j

\* parse_primary on an identifier: the Var node carries a clone of the first
\* declared variable of that name; an undeclared name is a parse error
\* (ok = FALSE) and yields no node.
parse_primary_ident(variables, name, pos) ==
    LET var_index == find_variable_index(variables, name)
    IN  IF var_index = 0
        THEN [ok |-> FALSE, err |-> [pos |-> pos, msg |-> <<"Variable not declared", name>>]]
        ELSE [ok |-> TRUE, node |-> VarE(variables[var_index], pos)]

\* ----------------------------------------------------- Type Resolver (4.1)

\* The Binary arm of infer_type.
BinaryTyAnd(lt, rt) == IF lt = "F64" /\ rt = "F64" THEN "F64" ELSE "I32"

BinaryTy(lt, rt) == IF lt = "F64" \/ rt = "F64" THEN "F64" ELSE "I32"

RECURSIVE infer_type(_)
infer_type(e) ==
    CASE e.k = "Int"    -> "I32"
      [] e.k = "Float"  -> "F64"
      [] e.k = "Binary" -> BinaryTy(infer_type(e.left), infer_type(e.right))
      [] e.k = "Var"    -> e.var.ty
      [] e.k = "Neg"    -> infer_type(e.inner)

\* ------------------------------------------------- Expression Lowering (4.2)

Ins(op, arg) == [op |-> op, arg |-> arg]

Ok(instr) == [ok |-> TRUE, instr |-> instr]

\* A Generator error that does not keep the position it is given.
ErrAtOrigin(pos, msg) == [ok |-> FALSE, err |-> [pos |-> 0, msg |-> msg]]

Err(pos, msg) == [ok |-> FALSE, err |-> [pos |-> pos, msg |-> msg]]

\* The arithmetic instruction chosen by match (op, target_ty).
BinInstrI32Only(op, ty) ==
    CASE op = "Add" -> Ins("i32.add", 0)
      [] op = "Sub" -> Ins("i32.sub", 0)
      [] op = "Mul" -> Ins("i32.mul", 0)
      [] op = "Div" -> Ins("i32.div_s", 0)

BinInstr(op, ty) ==
    CASE op = "Add" /\ ty = "I32" -> Ins("i32.add", 0)
      [] op = "Sub" /\ ty = "I32" -> Ins("i32.sub", 0)
      [] op = "Mul" /\ ty = "I32" -> Ins("i32.mul", 0)
      [] op = "Div" /\ ty = "I32" -> Ins("i32.div_s", 0)
      [] op = "Add" /\ ty = "F64" -> Ins("f64.add", 0)
      [] op = "Sub" /\ ty = "F64" -> Ins("f64.sub", 0)
      [] op = "Mul" /\ ty = "F64" -> Ins("f64.mul", 0)
      [] op = "Div" /\ ty = "F64" -> Ins("f64.div", 0)

\* The implicit cast emitted after a value of type `from` when `to` is wanted:
\* i32 -> f64 widens (signed), f64 -> i32 truncates toward zero.
Cast(from, to) ==
    IF from = to THEN <<>>
    ELSE IF to = "F64" THEN <<Ins("f64.convert_i32_s", 0)>>
    ELSE <<Ins("i32.trunc_f64_s", 0)>>

RECURSIVE gen_expression_as(_, _, _)
gen_expression_as(e, tgt, fn) ==
    CASE e.k = "Neg" ->
            IF tgt = "F64"
            THEN LET r == gen_expression_as(e.inner, "F64", fn)
                 IN  IF r.ok THEN Ok(r.instr \o <<Ins("f64.neg", 0)>>) ELSE r
            ELSE LET r == gen_expression_as(e.inner, "I32", fn)
                 IN  IF r.ok
                     THEN Ok(<<Ins("i32.const", 0)>> \o r.instr \o <<Ins("i32.sub", 0)>>)
                     ELSE r
      [] e.k = "Int" -> Ok(<<Ins("i32.const", e.v)>> \o Cast("I32", tgt))
      [] e.k = "Float" -> Ok(<<Ins("f64.const", e.v)>> \o Cast("F64", tgt))
      [] e.k = "Binary" ->
            LET target_ty == tgt
                l == gen_expression_as(e.left, target_ty, fn)
            IN  IF ~l.ok THEN l
                ELSE LET r == gen_expression_as(e.right, target_ty, fn)
                     IN  IF ~r.ok THEN r
                         ELSE Ok(l.instr \o r.instr \o <<BinInstr(e.op, target_ty)>>)
      [] e.k = "Var" ->
            LET i == find_variable_index(fn.variables, e.var.name)
            IN  IF i = 0
                THEN Err(e.pos, <<"unknown variable", e.var.name>>)
                ELSE Ok(<<Ins("local.get", i - 1)>> \o Cast(e.var.ty, tgt))

\* gen_expression: lower in the inferred type and return that type.
gen_expression(e, fn) ==
    LET tgt == infer_type(e)
        r == gen_expression_as(e, tgt, fn)
    IN  IF r.ok THEN [ok |-> TRUE, instr |-> r.instr, ty |-> tgt] ELSE r


\* ------------------------------------------------------- String Pool (4.3)

Blob(ptr, len) == [ptr |-> ptr, len |-> len]

\* HashMap<K, V> as a function; HashMap::new() and HashMap::insert.
EmptyMap == [key \in {} |-> 0]

MapInsert(m, key, v) ==
    [x \in DOMAIN m \cup {key} |-> IF x = key THEN v ELSE m[x]]

Max(a, b) == IF a >= b THEN a ELSE b

\* let x = v; F(x): v is evaluated once and F sees its value.
Bind(v, F(_)) == CHOOSE y \in {F(x) : x \in {v}} : TRUE

\* x & y on unsigned integers.
RECURSIVE BitAnd(_, _)
BitAnd(x, y) ==
    IF x = 0 \/ y = 0 THEN 0
    ELSE (x % 2) * (y % 2) + 2 * BitAnd(x \div 2, y \div 2)

\* x & !a on u32: clearing the bits of a is subtracting the bits x shares with a.
AndNot(x, a) == x - BitAnd(x, a)

\* align_up(x, align) (codegen.rs); the sums of the model stay far below 2^32.
align_up_floor(x, align) ==
    IF align <= 1 THEN x ELSE AndNot(x, align - 1)

align_up(x, align) ==
    IF align <= 1 THEN x
    ELSE LET a == align - 1 IN AndNot(x + a, a)

\* The reuse test of push_text: the stored placement satisfies `align`.
SatisfiesOnlyTrivial(blob, align) == align <= 1

SatisfiesAlways(blob, align) == TRUE

Satisfies(blob, align) == align <= 1 \/ blob.ptr % align = 0

\* push_text that leaves the cursor at the start of the bytes it placed.
push_text_no_advance(data, mem_index, cursor, text, align, interner) ==
    IF text \in DOMAIN interner /\ Satisfies(interner[text], align)
    THEN [data |-> data, cursor |-> cursor, interner |-> interner,
          blob |-> interner[text]]
    ELSE LET ptr  == align_up(cursor, Max(align, 1))
             blob == Blob(ptr, Len(text))
         IN  [data |-> Append(data, [mem |-> mem_index, ptr |-> ptr, bytes |-> text]),
              cursor |-> ptr,
              interner |-> MapInsert(interner, text, blob),
              blob |-> blob]

\* push_text without the lookup in the interner.
push_text_always(data, mem_index, cursor, text, align, interner) ==
    LET ptr  == align_up(cursor, Max(align, 1))
        blob == Blob(ptr, Len(text))
    IN  [data |-> Append(data, [mem |-> mem_index, ptr |-> ptr, bytes |-> text]),
         cursor |-> ptr + Len(text),
         interner |-> MapInsert(interner, text, blob),
         blob |-> blob]

\* push_text(data, mem_index, cursor, text, align, interner): the new values
\* of the three &mut arguments and the Blob returned.  A text is the sequence
\* of its bytes.
push_text(data, mem_index, cursor, text, align, interner) ==
    IF text \in DOMAIN interner /\ Satisfies(interner[text], align)
    THEN [data |-> data, cursor |-> cursor, interner |-> interner,
          blob |-> interner[text]]
    ELSE LET ptr  == align_up(cursor, Max(align, 1))
             blob == Blob(ptr, Len(text))
         IN  [data |-> Append(data, [mem |-> mem_index, ptr |-> ptr, bytes |-> text]),
              cursor |-> ptr + Len(text),
              interner |-> MapInsert(interner, text, blob),
              blob |-> blob]

\* CodeGenerator::new().  `uses` is no field of the struct: it is the history
\* of the generator's push_text calls, the text asked for and the Blob returned.
New ==
    [ types |-> <<>>, imports |-> <<>>, functions |-> <<>>, code |-> <<>>,
      data |-> <<>>, exports |-> <<>>,
      names |-> [module |-> <<>>, functions |-> <<>>, locals |-> <<>>],
      globals |-> <<>>, string_interner |-> EmptyMap,
      fn_names |-> <<>>, fn_idx |-> 0, fn_map |-> EmptyMap,
      data_idx |-> 0, ty_void |-> 0, uses |-> <<>> ]

\* ------------------------------------------------------ machine locals (4.4)

\* gen_variables: one machine local per declared Variable, in declaration
\* order, after param_count parameters (the language has none).
gen_variables_all_i32(variables, param_count) ==
    [i \in 1..Len(variables) |-> "I32"]

gen_variables(variables, param_count) ==
    [i \in 1..Len(variables) |-> variables[i].ty]

\* ------------------------------------------------ statements (parser.rs)

StrS(s) == [k |-> "Str", s |-> s]

NumToStrS(inner) == [k |-> "NumToStr", inner |-> inner]

NlS == [k |-> "Nl"]

PrintSt(list) == [k |-> "Print", list |-> list]

PrintlnSt(list) == [k |-> "Println", list |-> list]

CallSt(name, pos) == [k |-> "Call", name |-> name, pos |-> pos]

\* expr is Expr::Num(e), [k |-> "Num", e |-> e], or Expr::Str(s), [k |-> "Str", s |-> s].
AssignmentSt(var, e, pos) == [k |-> "Assignment", var |-> var, expr |-> e, pos |-> pos]

NumX(e) == [k |-> "Num", e |-> e]

StrX(s) == [k |-> "Str", s |-> s]

\* parse_assignment on `let var_name = e`: the statement carries a clone of
\* the first declared variable of that name and the position of the
\* identifier; an undeclared name is an error and yields no statement.
parse_assignment(variables, var_name, e, pos) ==
    LET var_index == find_variable_index(variables, var_name)
    IN  IF var_index = 0
        THEN [ok |-> FALSE, err |-> [pos |-> pos, msg |-> <<"Variable not declared", var_name>>]]
        ELSE [ok |-> TRUE, node |-> AssignmentSt(variables[var_index], e, pos)]

Function(name, body, variables) == [name |-> name, body |-> body, variables |-> variables]

Program(functions, local_functions, main) ==
    [functions |-> functions,
     main_program |-> [functions |-> local_functions, main |-> main]]

\* ------------------------------------------- string expressions and print

\* The text of StrExpr::Nl and of the newline println appends.
NewlineText == <<"\n">>

\* instr.i32_const(blob.ptr).i32_const(blob.len)
PushBlob(blob) == <<Ins("i32.const", blob.ptr), Ins("i32.const", blob.len)>>

\* One push_text call of the generator on its own sections (alignment 16).
InternText(g, text) ==
    LET r == push_text(g.data, 0, g.data_idx, text, 16, g.string_interner)
    IN  [g |-> [g EXCEPT !.data = r.data, !.data_idx = r.cursor,
                         !.string_interner = r.interner,
                         !.uses = Append(@, [text |-> text, blob |-> r.blob])],
         blob |-> r.blob]

\* gen_str_expression: [ok, g, instr, blob] where blob is <<b>> for Some(b)
\* and <<>> for None, or [ok |-> FALSE, err, g].
gen_str_expression(g, e, fn) ==
    CASE e.k = "Str" ->
            LET r == InternText(g, e.s)
            IN  [ok |-> TRUE, g |-> r.g, instr |-> <<>>, blob |-> <<r.blob>>]
      [] e.k = "Nl" ->
            LET r == InternText(g, NewlineText)
            IN  [ok |-> TRUE, g |-> r.g, instr |-> <<>>, blob |-> <<r.blob>>]
      [] e.k = "NumToStr" ->
            LET r == gen_expression(e.inner, fn)
            IN  IF ~r.ok THEN [ok |-> FALSE, err |-> r.err, g |-> g]
                ELSE LET callee == IF r.ty = "I32" THEN g.fn_map["to_str_i32"]
                                   ELSE g.fn_map["to_str_f64"]
                     IN  [ok |-> TRUE, g |-> g,
                          instr |-> r.instr \o <<Ins("call", callee)>>, blob |-> <<>>]

\* The element loop of gen_print from element i on: every element is
\* lowered, and every element after the first is followed by a call of concat.
RECURSIVE gen_print_elements(_, _, _, _, _)
gen_print_elements(g, list, i, instr, fn) ==
    IF i > Len(list) THEN [ok |-> TRUE, g |-> g, instr |-> instr]
    ELSE Bind(gen_str_expression(g, list[i], fn), LAMBDA r :
             IF ~r.ok THEN r
             ELSE LET pushed == IF r.blob = <<>> THEN <<>> ELSE PushBlob(r.blob[1])
                      folded == IF i > 1 THEN <<Ins("call", r.g.fn_map["concat"])>> ELSE <<>>
                  IN  gen_print_elements(r.g, list, i + 1,
                                         instr \o r.instr \o pushed \o folded, fn))

\* The tail of gen_print after the match on the list: the newline of println,
\* then the call of log.
gen_print_tail(list, g, instr, nl) ==
    LET n == InternText(g, NewlineText)
        withNl == IF nl
                  THEN instr \o PushBlob(n.blob) \o <<Ins("call", n.g.fn_map["concat"])>>
                  ELSE instr
    IN  [ok |-> TRUE, g |-> IF nl THEN n.g ELSE g,
         instr |-> withNl \o <<Ins("call", g.fn_map["log"])>>]

\* gen_print(str_expr, instr, function, nl): [ok, g, instr] or [ok |-> FALSE, err, g].
gen_print(g, list, fn, nl) ==
    Bind(gen_print_elements(g, list, 1, <<>>, fn), LAMBDA r :
        IF ~r.ok THEN r ELSE gen_print_tail(list, r.g, r.instr, nl))

\* Signatures of the four imported host functions, by function index
\* (push_imported_function is called in this order by generate_wasm).
ImportSigs ==
    << [p |-> <<"I32", "I32">>, r |-> <<>>],                         \* env.log
       [p |-> <<"I32">>, r |-> <<"I32", "I32">>],                    \* str.to_str_i32
       [p |-> <<"F64">>, r |-> <<"I32", "I32">>],                    \* str.to_str_f64
       [p |-> <<"I32", "I32", "I32", "I32">>, r |-> <<"I32", "I32">>] >>  \* str.concat

\* ty_void, type 0: () -> (), the type of every user function.
VoidSig == [p |-> <<>>, r |-> <<>>]

\* ---------------------------------------------------- Function Emitter (4.4)

\* The names gen_variables records for function fn_id: (local index, name).
local_names(variables, fn_id, param_count) ==
    [fn |-> fn_id,
     names |-> [i \in 1..Len(variables) |->
                    [idx |-> param_count + i - 1, name |-> variables[i].name]]]

\* One statement of gen_function's loop: [ok, g, instr] or [ok |-> FALSE, err, g].
gen_statement(g, st, fn) ==
    CASE st.k = "Print"   -> gen_print(g, st.list, fn, FALSE)
      [] st.k = "Println" -> gen_print(g, st.list, fn, TRUE)
      [] st.k = "Call" ->
            IF st.name \in DOMAIN g.fn_map
            THEN [ok |-> TRUE, g |-> g, instr |-> <<Ins("call", g.fn_map[st.name])>>]
            ELSE [ok |-> FALSE, g |-> g,
                  err |-> [pos |-> st.pos, msg |-> <<"unknown function", st.name>>]]
      [] st.k = "Assignment" ->
            IF st.expr.k # "Num"
            THEN [ok |-> FALSE, g |-> g,
                  err |-> [pos |-> st.pos,
                           msg |-> <<"only numeric expressions are supported in assignments">>]]
            ELSE LET r == gen_expression_as(st.expr.e, st.var.ty, fn)
                     i == find_variable_index(fn.variables, st.var.name)
                 IN  IF ~r.ok THEN [ok |-> FALSE, g |-> g, err |-> r.err]
                     ELSE IF i = 0
                     THEN [ok |-> FALSE, g |-> g,
                           err |-> [pos |-> st.pos, msg |-> <<"unknown variable", st.var.name>>]]
                     ELSE [ok |-> TRUE, g |-> g,
                           instr |-> r.instr \o <<Ins("local.set", i - 1)>>]

RECURSIVE gen_statements(_, _, _, _, _)
gen_statements(g, body, i, instr, fn) ==
    IF i > Len(body) THEN [ok |-> TRUE, g |-> g, instr |-> instr]
    ELSE Bind(gen_statement(g, body[i], fn), LAMBDA r :
             IF ~r.ok THEN r
             ELSE gen_statements(r.g, body, i + 1, instr \o r.instr, fn))

\* gen_function: the function section entry, the locals, the body, `end`.
gen_function(g, fn) ==
    LET fn_id  == g.fn_map[fn.name]
        g1     == [g EXCEPT !.functions = Append(@, g.ty_void),
                            !.names.locals = Append(@, local_names(fn.variables, fn_id, 0))]
        locals == gen_variables(fn.variables, 0)
    IN  Bind(gen_statements(g1, fn.body, 1, <<>>, fn), LAMBDA r :
            IF ~r.ok THEN r
            ELSE [ok |-> TRUE,
                  g |-> [r.g EXCEPT !.code = Append(@, [locals |-> locals,
                                                        body |-> r.instr \o <<Ins("end", 0)>>])]])

\* ----------------------------------------------------- Module Assembler (4.5)

\* declare_function without the increment of fn_idx.
declare_function_same_index(g, fn) ==
    [g EXCEPT !.fn_names = Append(@, [idx |-> g.fn_idx, name |-> fn.name]),
              !.fn_map = MapInsert(@, fn.name, g.fn_idx)]

declare_function(g, fn) ==
    [g EXCEPT !.fn_names = Append(@, [idx |-> g.fn_idx, name |-> fn.name]),
              !.fn_map = MapInsert(@, fn.name, g.fn_idx),
              !.fn_idx = @ + 1]

push_imported_function(g, module, name, params, results) ==
    LET fn_type == Len(g.types)
    IN  [g EXCEPT !.types = Append(@, [p |-> params, r |-> results]),
                  !.imports = Append(@, [module |-> module, name |-> name,
                                         ty |-> [kind |-> "func", type |-> fn_type]]),
                  !.fn_names = Append(@, [idx |-> g.fn_idx, name |-> name]),
                  !.fn_map = MapInsert(@, name, g.fn_idx),
                  !.fn_idx = @ + 1]

\* MemoryType { minimum: 1, maximum: None, memory64: false, shared: false }
MemoryImport ==
    [module |-> "env", name |-> "memory",
     ty |-> [kind |-> "memory", minimum |-> 1, maximum |-> <<>>, shared |-> FALSE]]

\* Steps 1 and 2 of generate_wasm: module name, type 0, the imports.
declare_imports(g, name) ==
    LET g0 == [g EXCEPT !.names.module = name,
                        !.types = Append(@, VoidSig),
                        !.ty_void = 0]
        g1 == push_imported_function(g0, "env", "log", <<"I32", "I32">>, <<>>)
        g2 == push_imported_function(g1, "str", "to_str_i32", <<"I32">>, <<"I32", "I32">>)
        g3 == push_imported_function(g2, "str", "to_str_f64", <<"F64">>, <<"I32", "I32">>)
        g4 == push_imported_function(g3, "str", "concat",
                                     <<"I32", "I32", "I32", "I32">>, <<"I32", "I32">>)
    IN  [g4 EXCEPT !.imports = Append(@, MemoryImport)]

\* The functions of a Program in the order generate_wasm walks them.
AllFunctions(p) == p.functions \o p.main_program.functions \o <<p.main_program.main>>

\* Number of host functions imported before the first declared function.
NumImports == Len(ImportSigs)

\* Initial value of the heap_ptr global.
heap_start_unaligned(g) == g.data_idx

heap_start(g) == align_up(g.data_idx, 16)

\* Steps 6 to 8 of generate_wasm: exports, the heap_ptr global, the module.
finish_module(g) ==
    LET g1 == [g EXCEPT !.exports = Append(@, [name |-> "main", kind |-> "func",
                                               index |-> Max(Cardinality(DOMAIN g.fn_map) - 1, 0)])]
        g2 == [g1 EXCEPT !.globals = Append(@, [val_type |-> "I32", mutable |-> TRUE,
                                                shared |-> FALSE, init |-> heap_start(g)]),
                         !.exports = Append(@, [name |-> "heap_ptr", kind |-> "global",
                                                index |-> 0])]
    IN  [g |-> g2,
         module |-> [types |-> g2.types, imports |-> g2.imports,
                     functions |-> g2.functions, globals |-> g2.globals,
                     exports |-> g2.exports, code |-> g2.code, data |-> g2.data,
                     names |-> g2.names]]

\* Step 3: the declaration pass from function i on, then step 4 (the
\* function names of the name section).
RECURSIVE declare_from(_, _, _)
declare_from(g, fns, i) ==
    IF i > Len(fns) THEN [g EXCEPT !.names.functions = g.fn_names]
    ELSE Bind(declare_function(g, fns[i]), LAMBDA g1 : declare_from(g1, fns, i + 1))

\* Step 5: the bodies from function i on.
RECURSIVE generate_from(_, _, _)
generate_from(g, fns, i) ==
    IF i > Len(fns) THEN [ok |-> TRUE, g |-> g]
    ELSE Bind(gen_function(g, fns[i]), LAMBDA r :
             IF ~r.ok THEN r ELSE generate_from(r.g, fns, i + 1))

\* generate_wasm(prog_name, prog) on the generator g:
\* [ok |-> TRUE, module] or [ok |-> FALSE, err].
generate_wasm(g, name, p) ==
    Bind(declare_from(declare_imports(g, name), AllFunctions(p), 1), LAMBDA declared :
        Bind(generate_from(declared, AllFunctions(p), 1), LAMBDA r :
            IF ~r.ok THEN [ok |-> FALSE, err |-> r.err]
            ELSE [ok |-> TRUE, module |-> finish_module(r.g).module]))

\* let mut generator = CodeGenerator::new() before each generate_wasm (main.rs).
KeepGenerator(g) == g

FreshGenerator(g) == New

\* ------------------------------------------- stack typing of emitted code

Invalid == <<"invalid">>

\* Signature of one instruction in a function whose locals have the types
\* `locals`, in a module whose functions (imports first) have the
\* signatures `sigs`.
InsSig(ins, locals, sigs) ==
    CASE ins.op = "i32.const" -> [p |-> <<>>, r |-> <<"I32">>]
      [] ins.op = "f64.const" -> [p |-> <<>>, r |-> <<"F64">>]
      [] ins.op = "f64.convert_i32_s" -> [p |-> <<"I32">>, r |-> <<"F64">>]
      [] ins.op = "i32.trunc_f64_s" -> [p |-> <<"F64">>, r |-> <<"I32">>]
      [] ins.op \in {"i32.add", "i32.sub", "i32.mul", "i32.div_s"} ->
            [p |-> <<"I32", "I32">>, r |-> <<"I32">>]
      [] ins.op \in {"f64.add", "f64.sub", "f64.mul", "f64.div"} ->
            [p |-> <<"F64", "F64">>, r |-> <<"F64">>]
      [] ins.op = "f64.neg" -> [p |-> <<"F64">>, r |-> <<"F64">>]
      [] ins.op = "local.get" ->
            IF ins.arg + 1 \in DOMAIN locals
            THEN [p |-> <<>>, r |-> <<locals[ins.arg + 1]>>]
            ELSE [p |-> Invalid, r |-> <<>>]
      [] ins.op = "local.set" ->
            IF ins.arg + 1 \in DOMAIN locals
            THEN [p |-> <<locals[ins.arg + 1]>>, r |-> <<>>]
            ELSE [p |-> Invalid, r |-> <<>>]
      [] ins.op = "call" ->
            IF ins.arg + 1 \in DOMAIN sigs THEN sigs[ins.arg + 1]
            ELSE [p |-> Invalid, r |-> <<>>]
      [] ins.op = "end" -> [p |-> <<>>, r |-> <<>>]
      [] OTHER -> [p |-> Invalid, r |-> <<>>]

\* The operand stack after one instruction, or Invalid when the instruction
\* pops a missing or wrongly typed operand.
StackStep(stack, ins, locals, sigs) ==
    LET sig == InsSig(ins, locals, sigs)
        np  == Len(sig.p)
    IN  IF stack = Invalid \/ sig.p = Invalid \/ Len(stack) < np THEN Invalid
        ELSE IF SubSeq(stack, Len(stack) - np + 1, Len(stack)) # sig.p THEN Invalid
        ELSE SubSeq(stack, 1, Len(stack) - np) \o sig.r

RECURSIVE StackFrom(_, _, _, _, _)
StackFrom(stack, code, i, locals, sigs) ==
    IF i > Len(code) \/ stack = Invalid THEN stack
    ELSE Bind(StackStep(stack, code[i], locals, sigs), LAMBDA st :
             StackFrom(st, code, i + 1, locals, sigs))

\* The operand stack left by `code` run from an empty stack.
StackAfter(code, locals, sigs) == StackFrom(<<>>, code, 1, locals, sigs)

\* ------------------------------------------------ Execution Host (runner.rs)

\* The zero byte of fresh linear memory; bytes are one-character strings.
ZeroByte == "NUL"

\* A byte that starts no UTF-8 sequence, and U+FFFD as String::from_utf8_lossy
\* writes it.
BadByte == "0xFF"

ReplacementChar == <<"0xEF", "0xBF", "0xBD">>

\* MemoryType::new(1, None): one page of 64 KiB, in bytes.
MemoryBytes == 65536

\* The definitions run_wasm_bytes puts in the linker.
LinkerDefs ==
    { [module |-> "env", name |-> "memory", kind |-> "memory", sig |-> VoidSig],
      [module |-> "env", name |-> "log", kind |-> "func",
       sig |-> [p |-> <<"I32", "I32">>, r |-> <<>>]],
      [module |-> "str", name |-> "to_str", kind |-> "func",
       sig |-> [p |-> <<"I32">>, r |-> <<"I32", "I32">>]],
      [module |-> "str", name |-> "concat", kind |-> "func",
       sig |-> [p |-> <<"I32", "I32", "I32", "I32">>, r |-> <<"I32", "I32">>]] }

\* (x) & !(align - 1): rounding down.
runner_align_down(x, align) == AndNot(x, align - 1)

\* align_up(x, align) (runner.rs): no special case for align <= 1.
runner_align_up(x, align) == AndNot(x + (align - 1), align - 1)

\* Memory is a function from the addresses written so far to bytes; every
\* other address below MemoryBytes holds ZeroByte.
InBounds(ptr, len) == ptr >= 0 /\ len >= 0 /\ ptr + len <= MemoryBytes

\* read_slice(mem, caller, ptr, len), for a range that is in bounds.
read_slice(mem, ptr, len) ==
    [i \in 1..len |-> IF ptr + i - 1 \in DOMAIN mem THEN mem[ptr + i - 1] ELSE ZeroByte]

\* write_slice(mem, caller, ptr, data), for a range that is in bounds.
write_slice(mem, ptr, data) ==
    [a \in DOMAIN mem \cup (ptr..(ptr + Len(data) - 1)) |->
        IF a >= ptr /\ a < ptr + Len(data) THEN data[a - ptr + 1] ELSE mem[a]]

\* String::from_utf8_lossy(&bytes) as bytes: an invalid byte becomes U+FFFD.
RECURSIVE from_utf8_lossy(_)
from_utf8_lossy(bytes) ==
    IF bytes = <<>> THEN <<>>
    ELSE (IF Head(bytes) = BadByte THEN ReplacementChar ELSE <<Head(bytes)>>)
         \o from_utf8_lossy(Tail(bytes))

\* println!("{}", s): the bytes that reach standard output.
println_macro(s) == s \o <<"\n">>

Digits == <<"0", "1", "2", "3", "4", "5", "6", "7", "8", "9">>

RECURSIVE DecimalOfNat(_)
DecimalOfNat(n) ==
    IF n < 10 THEN <<Digits[n + 1]>>
    ELSE DecimalOfNat(n \div 10) \o <<Digits[(n % 10) + 1]>>

\* n.to_string() for an i32, as bytes.
to_string(n) == IF n < 0 THEN <<"-">> \o DecimalOfNat(0 - n) ELSE DecimalOfNat(n)

\* An f64 on the operand stack is a number of halves, as a literal is; NaN
\* and 1e20, which no number of halves reaches, are the two largest integers.
F64Codes == [nan |-> 2147483647, huge |-> 2147483646]

IsHalves(v) == v # F64Codes.nan /\ v # F64Codes.huge

\* i32.trunc_f64_s traps on NaN and outside the i32 range.
TruncTraps(v) == ~IsHalves(v)

\* Truncation toward zero of a number of halves.
trunc_f64_s(v) == IF v >= 0 THEN v \div 2 ELSE 0 - ((0 - v) \div 2)

\* f64.add / f64.sub on codes.
f64_arith(op, a, b) ==
    IF a = F64Codes.nan \/ b = F64Codes.nan THEN F64Codes.nan
    ELSE IF ~IsHalves(a) /\ ~IsHalves(b)
         THEN (IF op = "f64.sub" THEN F64Codes.nan ELSE F64Codes.huge)
    ELSE IF ~IsHalves(a) THEN F64Codes.huge
    ELSE IF ~IsHalves(b) THEN (IF op = "f64.sub" THEN 0 - F64Codes.huge ELSE F64Codes.huge)
    ELSE IF op = "f64.add" THEN a + b ELSE a - b

\* i32.add, i32.sub, i32.mul, i32.div_s on operands whose results stay far
\* inside the i32 range; a zero divisor traps and is not handled here.
i32_arith(op, a, b) ==
    CASE op = "i32.add" -> a + b
      [] op = "i32.sub" -> a - b
      [] op = "i32.mul" -> a * b
      [] op = "i32.div_s" ->
            IF (a >= 0) = (b > 0) THEN (IF a >= 0 THEN a \div b ELSE (0 - a) \div (0 - b))
            ELSE 0 - ((IF a >= 0 THEN a ELSE 0 - a) \div (IF b > 0 THEN b ELSE 0 - b))

\* The store before instantiation: the memory, the empty heap_ptr_cell,
\* nothing written to standard output, no error.
NewHost ==
    [ memory |-> EmptyMap, heap_ptr_cell |-> <<>>, globals |-> <<>>,
      stdout |-> <<>>, err |-> <<>> ]

\* No guest code running.
NoGuest == [frames |-> <<>>, stack |-> <<>>]

\* No host function called yet.
\* `regions` is the history of the allocations: the (ptr, len) each
\* allocator-backed call returned and the cursor it wrote.
NoHostCall ==
    [n |-> 0, name |-> "", args |-> <<>>, before |-> NewHost, ret |-> <<>>,
     regions |-> <<>>]

\* No module handed to the host.
NoModule ==
    [ types |-> <<>>, imports |-> <<>>, functions |-> <<>>, globals |-> <<>>,
      exports |-> <<>>, code |-> <<>>, data |-> <<>>,
      names |-> [module |-> <<>>, functions |-> <<>>, locals |-> <<>>] ]

IsFuncImport(imp) == imp.ty.kind = "func"

FuncImports(m) == SelectSeq(m.imports, IsFuncImport)

\* The start function of a module, <<>> when it has no start section.
StartOf(m) == IF "start" \in DOMAIN m THEN m.start ELSE <<>>

\* Signatures of the function index space: imported functions, then the
\* functions of the function section.
FuncSigs(m) ==
    LET imps == FuncImports(m)
        sigOf(t) == IF t + 1 \in DOMAIN m.types THEN m.types[t + 1]
                    ELSE [p |-> Invalid, r |-> <<>>]
    IN  [i \in 1..(Len(imps) + Len(m.functions)) |->
            IF i <= Len(imps) THEN sigOf(imps[i].ty.type)
            ELSE sigOf(m.functions[i - Len(imps)])]

\* Module::new(&engine, wasm_bytes): validation of the module.
Validate(m) ==
    LET sigs == FuncSigs(m)
        n    == Len(FuncImports(m))
    IN  /\ Len(m.code) = Len(m.functions)
        /\ \A i \in DOMAIN sigs : sigs[i].p # Invalid
        /\ \A i \in DOMAIN m.code :
              StackAfter(m.code[i].body, sigs[n + i].p \o m.code[i].locals, sigs)
                 = sigs[n + i].r
        /\ \A i \in DOMAIN m.exports :
              CASE m.exports[i].kind = "func" -> m.exports[i].index + 1 \in DOMAIN sigs
                [] m.exports[i].kind = "global" -> m.exports[i].index + 1 \in DOMAIN m.globals
                [] OTHER -> TRUE
        /\ StartOf(m) # <<>> =>
              /\ StartOf(m)[1] + 1 \in DOMAIN sigs
              /\ sigs[StartOf(m)[1] + 1] = VoidSig

\* The linker resolves an import by module and name, and the definition
\* has to have the imported type.
Resolves(m, imp) ==
    \E d \in LinkerDefs :
        /\ d.module = imp.module
        /\ d.name = imp.name
        /\ d.kind = imp.ty.kind
        /\ imp.ty.kind = "func" => m.types[imp.ty.type + 1] = d.sig
        /\ imp.ty.kind = "memory" => (imp.ty.minimum <= 1 /\ imp.ty.maximum = <<>>)

Unresolved(m) == {i \in DOMAIN m.imports : ~Resolves(m, m.imports[i])}

\* The active data segments copied into memory, from segment i on.
RECURSIVE init_data(_, _, _)
init_data(mem, data, i) ==
    IF i > Len(data) THEN mem
    ELSE Bind(write_slice(mem, data[i].ptr, data[i].bytes), LAMBDA m1 :
             init_data(m1, data, i + 1))

\* The export called `name` of the given kind: <<index>>, or <<>>.
find_export(m, name, kind) ==
    LET hits == {i \in DOMAIN m.exports :
                    m.exports[i].name = name /\ m.exports[i].kind = kind}
    IN  IF hits = {} THEN <<>>
        ELSE <<m.exports[CHOOSE i \in hits : \A j \in hits : i <= j].index>>

\* A call frame of guest function f (an index of the function index space):
\* its parameters, then its locals, zero-initialised.
NewFrame(m, f, args) ==
    [fn |-> f, ip |-> 1,
     locals |-> args \o [i \in 1..Len(m.code[f - Len(FuncImports(m)) + 1].locals) |-> 0]]

\* The instruction the guest is about to execute.
CurrentIns(m, g) ==
    LET fr == g.frames[Len(g.frames)]
    IN  m.code[fr.fn - Len(FuncImports(m)) + 1].body[fr.ip]

\* The operand stack without its n topmost values, and those values.
PopN(stack, n) == SubSeq(stack, 1, Len(stack) - n)

TopN(stack, n) == SubSeq(stack, Len(stack) - n + 1, Len(stack))

\* The guest after its current instruction returned `results` having
\* consumed n operands.
Advance(g, n, results) ==
    [g EXCEPT !.frames[Len(g.frames)].ip = @ + 1,
              !.stack = PopN(g.stack, n) \o results]

\* The guest is about to call the import `name` of `module`.
CallsImport(m, g, module, name) ==
    /\ g.frames # <<>>
    /\ LET ins == CurrentIns(m, g)
       IN  /\ ins.op = "call"
           /\ ins.arg < Len(FuncImports(m))
           /\ FuncImports(m)[ins.arg + 1].module = module
           /\ FuncImports(m)[ins.arg + 1].name = name

\* --------------------------------------------------- enumerated inputs

\* Declared-locals lists of the functions under study: none, two distinct
\* names, and a redeclared name (first declaration wins).
LocalLists ==
    { <<>>,
      <<Variable("x", "I32"), Variable("y", "F64")>>,
      <<Variable("x", "F64"), Variable("x", "I32"), Variable("y", "I32")>> }

DeclaredNames(variables) == {variables[i].name : i \in DOMAIN variables}

\* Positions given to the enumerated Var nodes.
Positions == {7}

\* The leaves the parser can build in a function with these locals.
Leaves(variables) ==
    {IntE(2), FloatE(3)}
        \cup {parse_primary_ident(variables, n, pos).node :
                 n \in DeclaredNames(variables), pos \in Positions}

RECURSIVE ExprsOfSize(_, _)
ExprsOfSize(n, variables) ==
    IF n = 1 THEN Leaves(variables)
    ELSE {NegE(e) : e \in ExprsOfSize(n - 1, variables)}
         \cup UNION { {BinaryE(op, l, r) : op \in BinOps,
                                            l \in ExprsOfSize(j, variables),
                                            r \in ExprsOfSize(n - 1 - j, variables)}
                      : j \in 1..(n - 2) }

NumExprs(variables) == UNION {ExprsOfSize(n, variables) : n \in 1..MaxNodes}

FunctionOf(variables) == [name |-> "f", body |-> <<>>, variables |-> variables]

\* ---------------------------------- specification of expression lowering

NoneTy == "none"

NoRes == [ok |-> FALSE, err |-> [pos |-> 0, msg |-> <<"not run">>]]

\* No Program handed over.
NoProgram == Program(<<>>, <<>>, Function("main", <<>>, <<>>))

\* No push_text call made yet.
NoCall ==
    [ n |-> 0, text |-> <<>>, align |-> 0,
      before |-> [data |-> <<>>, data_idx |-> 0, string_interner |-> EmptyMap,
                  requested |-> EmptyMap],
      ret |-> Blob(0, 0) ]

InitExpr ==
    /\ pc = "start"
    /\ \E variables \in LocalLists :
          /\ function = FunctionOf(variables)
          /\ expr \in NumExprs(variables)
    /\ target = NoneTy
    /\ ety = NoneTy
    /\ res = NoRes
    /\ gen = New
    /\ call = NoCall
    /\ requested = EmptyMap
    /\ prog_name = <<>>
    /\ prog = NoProgram
    /\ next_fn = 1
    /\ outs = <<>>
    /\ files = <<>>
    /\ wasm = NoModule
    /\ host = NewHost
    /\ guest = NoGuest
    /\ hcall = NoHostCall

\* self.infer_type(expr)
InferType ==
    /\ pc = "start"
    /\ ety' = infer_type(expr)
    /\ pc' = "inferred"
    /\ UNCHANGED <<runVars, function, expr, target, res, gen, poolVars, progVars>>

\* self.gen_expression_as(expr, instr, target, function)
GenExpressionAs ==
    /\ pc = "start"
    /\ \E tgt \in Tys :
          /\ target' = tgt
          /\ res' = gen_expression_as(expr, tgt, function)
    /\ pc' = "lowered_as"
    /\ UNCHANGED <<runVars, function, expr, ety, gen, poolVars, progVars>>

\* self.gen_expression(expr, instr, function)
GenExpression ==
    /\ pc = "start"
    /\ res' = gen_expression(expr, function)
    /\ target' = infer_type(expr)
    /\ pc' = "lowered"
    /\ UNCHANGED <<runVars, function, expr, ety, gen, poolVars, progVars>>

NextExpr == InferType \/ GenExpressionAs \/ GenExpression

SpecExpr == InitExpr /\ [][NextExpr]_vars


\* ------------------------------------------------ claims on SpecExpr

RECURSIVE HasFloatLeaf(_)
HasFloatLeaf(e) ==
    CASE e.k = "Int"    -> FALSE
      [] e.k = "Float"  -> TRUE
      [] e.k = "Var"    -> e.var.ty = "F64"
      [] e.k = "Neg"    -> HasFloatLeaf(e.inner)
      [] e.k = "Binary" -> HasFloatLeaf(e.left) \/ HasFloatLeaf(e.right)

RECURSIVE AllVarsDeclared(_, _)
AllVarsDeclared(e, variables) ==
    CASE e.k \in {"Int", "Float"} -> TRUE
      [] e.k = "Var"    -> e.var.name \in DeclaredNames(variables)
      [] e.k = "Neg"    -> AllVarsDeclared(e.inner, variables)
      [] e.k = "Binary" -> AllVarsDeclared(e.left, variables)
                              /\ AllVarsDeclared(e.right, variables)

\* C1: infer_type returns Float64 if and only if at least one literal or
\* variable leaf of the tree is Float64-typed, and Int32 otherwise.
C1_InferIffFloatLeaf ==
    pc = "inferred" =>
        /\ ety \in Tys
        /\ (ety = "F64") <=> HasFloatLeaf(expr)

\* A mixed binary node (an Int32 side and a Float64 side) has been inferred.
C1_Witness ==
    /\ pc = "inferred"
    /\ expr.k = "Binary"
    /\ ~HasFloatLeaf(expr.left)
    /\ HasFloatLeaf(expr.right)
    /\ ety = "F64"

\* C2: with every variable declared, the code emitted by gen_expression_as
\* for either target type is stack-valid and leaves exactly one value of the
\* target type on the evaluation stack (gen_expression: of the returned type).
C2_OneValueOfTarget ==
    (pc \in {"lowered_as", "lowered"} /\ AllVarsDeclared(expr, function.variables)) =>
        /\ res.ok
        /\ target \in Tys
        /\ StackAfter(res.instr, gen_variables(function.variables, 0), ImportSigs)
              = <<target>>
        /\ pc = "lowered" => res.ty = target

\* A binary node over a declared variable was lowered to the type that is
\* not its inferred one.
C2_Witness ==
    /\ pc = "lowered_as"
    /\ expr.k = "Binary"
    /\ expr.left.k = "Var"
    /\ target # infer_type(expr)
    /\ res.ok
    /\ Len(res.instr) >= 4

\* C3: a binary node lowered with a target other than its inferred type has
\* both operands lowered as the inferred type, then the arithmetic
\* instruction of the inferred type, then a single conversion to the target.
C3_BinaryInNaturalType ==
    (pc = "lowered_as" /\ expr.k = "Binary" /\ target # infer_type(expr)) =>
        LET nat == infer_type(expr)
            l == gen_expression_as(expr.left, nat, function)
            r == gen_expression_as(expr.right, nat, function)
        IN  /\ res.ok
            /\ res.instr = l.instr \o r.instr \o <<BinInstr(expr.op, nat)>> \o Cast(nat, target)


\* ---------------------------------------- specification of the string pool

\* Texts interned (each the sequence of its bytes): empty, "a", "ab", "\n".
Texts == { <<>>, <<"a">>, <<"a", "b">>, <<"\n">> }

\* Alignments requested: 0 and 1 (none), powers of two, and 3.
Aligns == {0, 1, 2, 3, 4, 16}

InitPool ==
    /\ pc = "pool"
    /\ function = FunctionOf(<<>>)
    /\ expr = IntE(0)
    /\ target = NoneTy
    /\ ety = NoneTy
    /\ res = NoRes
    /\ gen = New
    /\ call = NoCall
    /\ requested = EmptyMap
    /\ prog_name = <<>>
    /\ prog = NoProgram
    /\ next_fn = 1
    /\ outs = <<>>
    /\ files = <<>>
    /\ wasm = NoModule
    /\ host = NewHost
    /\ guest = NoGuest
    /\ hcall = NoHostCall

\* push_text(&mut self.data, 0, &mut self.data_idx, text, align,
\*           &mut self.string_interner)
PushText ==
    /\ pc = "pool"
    /\ call.n < MaxPushes
    /\ \E text \in Texts, align \in Aligns :
          LET r == push_text(gen.data, 0, gen.data_idx, text, align, gen.string_interner)
          IN  /\ gen' = [gen EXCEPT !.data = r.data, !.data_idx = r.cursor,
                                    !.string_interner = r.interner,
                                    !.uses = Append(@, [text |-> text, blob |-> r.blob])]
              /\ call' = [ n |-> call.n + 1, text |-> text, align |-> align,
                           before |-> [data |-> gen.data, data_idx |-> gen.data_idx,
                                       string_interner |-> gen.string_interner,
                                       requested |-> requested],
                           ret |-> r.blob ]
              /\ requested' = MapInsert(requested, text, align)
    /\ UNCHANGED <<runVars, pc, exprVars, progVars>>

NextPool == PushText

SpecPool == InitPool /\ [][NextPool]_vars

\* ------------------------------------------------ claims on SpecPool

IsPow2(a) == a \in {1, 2, 4, 8, 16, 32, 64}

\* The text of the last call was in the pool before the call.
WasInterned == call.n > 0 /\ call.text \in DOMAIN call.before.string_interner

StoredBefore == call.before.string_interner[call.text]

\* The last call left data region, cursor and pool as they were.
PoolUntouched ==
    /\ gen.data = call.before.data
    /\ gen.data_idx = call.before.data_idx
    /\ gen.string_interner = call.before.string_interner

\* The last call emitted a new data segment.
FreshPlacement == call.n > 0 /\ Len(gen.data) = Len(call.before.data) + 1

\* The text of the last call was last requested with the alignment a1.
PreviouslyRequested == call.n > 0 /\ call.text \in DOMAIN call.before.requested

PreviousAlign == Max(call.before.requested[call.text], 1)

\* First half of C4: a hit whose stored placement satisfies the alignment
\* returns the stored Blob and changes nothing.
HitReturnsStored ==
    (WasInterned /\ (call.align <= 1 \/ StoredBefore.ptr % call.align = 0)) =>
        /\ call.ret = StoredBefore
        /\ PoolUntouched

\* C4 (as claimed): a push_text hit that the stored placement satisfies
\* returns the stored Blob and leaves data region, cursor and pool unchanged;
\* in particular the same text interned again with an equal or weaker
\* alignment, whatever the alignments, gets the identical Blob.
C4_Original ==
    /\ HitReturnsStored
    /\ (PreviouslyRequested /\ Max(call.align, 1) <= PreviousAlign) =>
          /\ call.ret = StoredBefore
          /\ PoolUntouched

\* C4 (amended): as C4, the second half for power-of-two alignments only.
C4_HitUnchanged ==
    /\ HitReturnsStored
    /\ (PreviouslyRequested /\ Max(call.align, 1) <= PreviousAlign
            /\ IsPow2(Max(call.align, 1)) /\ IsPow2(PreviousAlign)) =>
          /\ call.ret = StoredBefore
          /\ PoolUntouched

\* A text placed with alignment 16 was requested again with alignment 4 and
\* the stored Blob came back.
C4_Witness ==
    /\ PreviouslyRequested
    /\ PreviousAlign = 16
    /\ call.align = 4
    /\ call.ret = StoredBefore
    /\ Len(gen.data) >= 2

\* What C5 promises of the last call: a second placement, distinct from the
\* stored one and aligned, now in the pool, the first one's bytes still there.
SecondPlacement ==
    /\ FreshPlacement
    /\ call.ret.ptr # StoredBefore.ptr
    /\ call.ret.ptr % call.align = 0
    /\ gen.string_interner[call.text] = call.ret
    /\ \E i \in DOMAIN call.before.data :
          /\ call.before.data[i].ptr = StoredBefore.ptr
          /\ call.before.data[i].bytes = call.text
          /\ gen.data[i] = call.before.data[i]
    /\ gen.data[Len(gen.data)] = [mem |-> 0, ptr |-> call.ret.ptr, bytes |-> call.text]

\* C5 (as claimed): for every pair of alignments, the second stricter than
\* the first, the second call allocates a second placement.
C5_Original ==
    (PreviouslyRequested /\ Max(call.align, 1) > PreviousAlign) => SecondPlacement

\* C5 (amended): a stricter power-of-two alignment that the stored placement
\* does not satisfy allocates a second, distinct, aligned placement, the pool
\* entry is overwritten and the first placement's bytes remain.
C5_StricterReplaces ==
    (PreviouslyRequested /\ Max(call.align, 1) > PreviousAlign
        /\ IsPow2(call.align) /\ StoredBefore.ptr % call.align # 0) => SecondPlacement

\* A text stored at an address that is not a multiple of 4 was requested
\* with alignment 4 and was placed again.
C5_Witness ==
    /\ PreviouslyRequested
    /\ call.align = 4
    /\ StoredBefore.ptr % 4 # 0
    /\ FreshPlacement
    /\ call.ret.ptr > StoredBefore.ptr

\* The smallest multiple of a that is >= x.
SmallestMultipleGE(x, a) == CHOOSE m \in x..(x + a) : m % a = 0 /\ \A j \in x..(m - 1) : j % a # 0

\* What C6 promises of the last call.
AlignedAndLeast ==
    /\ call.ret.ptr % call.align = 0
    /\ FreshPlacement => call.ret.ptr = SmallestMultipleGE(call.before.data_idx, call.align)

\* C6 (as claimed): for every alignment >= 1 the returned ptr is a multiple
\* of the alignment, the smallest one >= the cursor on a fresh placement.
C6_Original == (call.n > 0 /\ call.align >= 1) => AlignedAndLeast

\* C6 (amended): the same for every power-of-two alignment.
C6_AlignedPlacement == (call.n > 0 /\ IsPow2(call.align)) => AlignedAndLeast

\* A fresh placement had to skip bytes to reach a multiple of 16.
C6_Witness ==
    /\ FreshPlacement
    /\ call.align = 16
    /\ call.before.data_idx % 16 # 0
    /\ call.ret.ptr = 16


\* ------------------------------------------ specification of the generator

\* Locals of the enumerated entry functions.
MainLocals == <<Variable("x", "I32"), Variable("y", "F64")>>

VarX == parse_primary_ident(MainLocals, "x", 7).node

\* Statements of the enumerated entry functions.  The parser builds all of
\* them but the two prints of an empty list, which only another producer of
\* the Program can hand to the generator.
StmtPool ==
    { PrintSt(<<>>),
      PrintlnSt(<<>>),
      PrintSt(<<StrS(<<"a">>), StrS(<<"b">>)>>),
      PrintlnSt(<<StrS(<<"a">>), StrS(<<"b">>)>>),
      PrintSt(<<NumToStrS(VarX)>>),
      PrintlnSt(<<NumToStrS(BinaryE("Add", IntE(2), FloatE(3))), NlS, StrS(<<"a", "b", "c">>)>>),
      CallSt("g", 3),
      AssignmentSt(MainLocals[1], NumX(BinaryE("Add", IntE(2), IntE(3))), 5),
      AssignmentSt(MainLocals[1], NumX(FloatE(3)), 5) }

RECURSIVE BodiesOfLen(_)
BodiesOfLen(n) ==
    IF n = 0 THEN {<<>>}
    ELSE {Append(b, st) : b \in BodiesOfLen(n - 1), st \in StmtPool}

Bodies == UNION {BodiesOfLen(n) : n \in 0..MaxBody}

\* Library functions (from imports) and program-local functions.
LibraryChoices ==
    { <<>>,
      <<Function("g", <<PrintSt(<<StrS(<<"a">>)>>)>>, <<>>)>> }

LocalChoices ==
    { <<>>,
      <<Function("h", <<CallSt("g", 3), PrintlnSt(<<StrS(<<"b">>)>>)>>, <<>>)>>,
      <<Function("g", <<PrintSt(<<NlS>>)>>, <<>>)>>,
      <<Function("k", <<CallSt("main", 3)>>, <<>>)>> }

Programs ==
    { Program(lib, loc, Function("main", body, MainLocals)) :
        lib \in LibraryChoices, loc \in LocalChoices, body \in Bodies }

\* Locals with a redeclared name: the first declaration wins.
RedeclaredLocals ==
    <<Variable("x", "F64"), Variable("x", "I32"), Variable("y", "I32")>>

\* fn s() { local float x  local int x  local int y
\*          let y = 7  let x = 2 + y  print(to_str(x))  let y = x / 3.0 }
RedeclFn ==
    Function("s",
             << parse_assignment(RedeclaredLocals, "y", NumX(IntE(7)), 21).node,
                parse_assignment(RedeclaredLocals, "x",
                    NumX(BinaryE("Add", IntE(2),
                                 parse_primary_ident(RedeclaredLocals, "y", 24).node)), 22).node,
                PrintSt(<<NumToStrS(parse_primary_ident(RedeclaredLocals, "x", 25).node)>>),
                parse_assignment(RedeclaredLocals, "y",
                    NumX(BinaryE("Div", parse_primary_ident(RedeclaredLocals, "x", 26).node,
                                 FloatE(6))), 23).node >>,
             RedeclaredLocals)

\* Statements the parser refuses or cannot build from the entry function's
\* locals, which another producer of the Program can hand to the generator
\* (a call of an unknown name and a call of an import name are parsed), and
\* one assignment that is in order.  Every position is different.
ExtraStmts ==
    { CallSt("nope", 11),
      CallSt("concat", 12),
      AssignmentSt(Variable("z", "I32"), NumX(IntE(2)), 13),
      AssignmentSt(MainLocals[1], StrX(StrS(<<"a">>)), 14),
      AssignmentSt(MainLocals[2], NumX(NegE(VarE(Variable("z", "F64"), 15))), 16),
      PrintlnSt(<<StrS(<<"a">>), NumToStrS(VarE(Variable("z", "I32"), 17))>>),
      AssignmentSt(Variable("z", "I32"), NumX(VarE(Variable("w", "I32"), 18)), 19),
      parse_assignment(MainLocals, "y", NumX(VarX), 20).node }

RECURSIVE ExtraBodiesOfLen(_)
ExtraBodiesOfLen(n) ==
    IF n = 0 THEN {<<>>}
    ELSE {Append(b, st) : b \in ExtraBodiesOfLen(n - 1), st \in ExtraStmts}

ExtraPrograms ==
    { Program(<<>>, loc, Function("main", body, MainLocals)) :
        loc \in {<<>>, <<RedeclFn>>},
        body \in UNION {ExtraBodiesOfLen(n) : n \in 1..MaxBody} }

\* Programs with a function that has the name of a host import: `log` and
\* `concat` are identifiers for the lexer, and parse_function takes any
\* identifier as a function name.
ShadowPrograms ==
    { Program(<<>>, <<Function(name, <<>>, <<>>)>>, Function("main", <<st>>, MainLocals)) :
        name \in {"log", "concat"},
        st \in { PrintSt(<<StrS(<<"a">>), StrS(<<"b">>)>>),
                 PrintlnSt(<<StrS(<<"a">>)>>) } }

ModuleNames == { <<"m">> }

InitGen ==
    /\ pc = "gen_start"
    /\ function = FunctionOf(<<>>)
    /\ expr = IntE(0)
    /\ target = NoneTy
    /\ ety = NoneTy
    /\ res = NoRes
    /\ gen = New
    /\ call = NoCall
    /\ requested = EmptyMap
    /\ prog_name \in ModuleNames
    /\ prog \in Programs \cup ExtraPrograms \cup ShadowPrograms
    /\ next_fn = 1
    /\ outs = <<>>
    /\ files = <<>>
    /\ wasm = NoModule
    /\ host = NewHost
    /\ guest = NoGuest
    /\ hcall = NoHostCall

\* The `?` after self.gen_function(f): an Err ends generate_wasm.
NeverErr(r) == FALSE

IsErr(r) == ~r.ok

\* generate_wasm, steps 1 and 2.
DeclareImports ==
    /\ pc = "gen_start"
    /\ gen' = declare_imports(gen, prog_name)
    /\ pc' = "declaring"
    /\ next_fn' = 1
    /\ UNCHANGED <<runVars, exprVars, poolVars, prog_name, prog, outs, files>>

\* generate_wasm, step 3: declare_function on the next function; after the
\* last one, step 4.
DeclareFunction ==
    /\ pc = "declaring"
    /\ LET fns == AllFunctions(prog)
           g1  == declare_function(gen, fns[next_fn])
       IN  IF next_fn = Len(fns)
           THEN /\ gen' = [g1 EXCEPT !.names.functions = g1.fn_names]
                /\ pc' = "generating"
                /\ next_fn' = 1
           ELSE /\ gen' = g1
                /\ pc' = "declaring"
                /\ next_fn' = next_fn + 1
    /\ UNCHANGED <<runVars, exprVars, poolVars, prog_name, prog, outs, files>>

\* generate_wasm, step 5: gen_function on the next function; an error ends
\* generate_wasm with that error.
GenFunction ==
    /\ pc = "generating"
    /\ LET fns == AllFunctions(prog)
       IN  \E r \in {gen_function(gen, fns[next_fn])} :
           IF IsErr(r)
           THEN /\ gen' = r.g
                /\ outs' = Append(outs, [ok |-> FALSE, err |-> r.err])
                /\ pc' = "gen_failed"
                /\ next_fn' = next_fn
           ELSE /\ gen' = r.g
                /\ outs' = outs
                /\ pc' = IF next_fn = Len(fns) THEN "finishing" ELSE "generating"
                /\ next_fn' = next_fn + 1
    /\ UNCHANGED <<runVars, exprVars, poolVars, prog_name, prog, files>>

\* generate_wasm, steps 6 to 8.
FinishModule ==
    /\ pc = "finishing"
    /\ \E r \in {finish_module(gen)} :
           /\ gen' = r.g
           /\ outs' = Append(outs, [ok |-> TRUE, module |-> r.module])
    /\ pc' = "generated"
    /\ UNCHANGED <<runVars, exprVars, poolVars, prog_name, prog, next_fn, files>>

\* wasmprinter::print_bytes(&wasm): the text rendering of the module.
print_bytes(module) == <<"wat", module>>

\* The compile mode after generate_wasm returned Ok: fs::write of the .wasm
\* file, and of the .wat file when -a was given; the process then ends.
WriteArtifacts ==
    /\ pc = "generated"
    /\ \E wat \in BOOLEAN :
          LET out   == outs[Len(outs)]
              fwasm == [path |-> prog_name \o <<".wasm">>, kind |-> "wasm",
                        n |-> Len(outs), bytes |-> out.module]
              fwat  == [path |-> prog_name \o <<".wat">>, kind |-> "wat",
                        n |-> Len(outs), bytes |-> print_bytes(out.module)]
          IN  files' = files \o <<fwasm>> \o (IF wat THEN <<fwat>> ELSE <<>>)
    /\ pc' = "written"
    /\ UNCHANGED <<runVars, exprVars, poolVars, gen, prog_name, prog, next_fn, outs>>

\* The same Program is compiled again (main.rs builds a new generator for
\* every compilation).
CompileAgain ==
    /\ pc \in {"generated", "gen_failed"}
    /\ Len(outs) < MaxInvocations
    /\ gen' = FreshGenerator(gen)
    /\ pc' = "gen_start"
    /\ UNCHANGED <<runVars, exprVars, poolVars, progVars>>

NextGen ==
    \/ DeclareImports
    \/ DeclareFunction
    \/ GenFunction
    \/ FinishModule
    \/ WriteArtifacts
    \/ CompileAgain

SpecGen == InitGen /\ [][NextGen]_vars


\* ------------------------------------------------ claims on SpecGen

\* The module returned by the latest generate_wasm invocation.
LastModule == outs[Len(outs)].module

\* C7: for every Program whose generation succeeds, the module has a single
\* global, mutable and exported as heap_ptr, whose initial value is a
\* multiple of 16 and is >= ptr + len of every string placed in the data
\* region.
C7_HeapStartAfterData ==
    pc = "generated" =>
        /\ Len(LastModule.globals) = 1
        /\ LastModule.globals[1].mutable
        /\ \E i \in DOMAIN LastModule.exports :
              LastModule.exports[i] = [name |-> "heap_ptr", kind |-> "global", index |-> 0]
        /\ LastModule.globals[1].init % 16 = 0
        /\ \A i \in DOMAIN LastModule.data :
              LastModule.globals[1].init
                  >= LastModule.data[i].ptr + Len(LastModule.data[i].bytes)
        /\ \A t \in DOMAIN gen.string_interner :
              LastModule.globals[1].init
                  >= gen.string_interner[t].ptr + gen.string_interner[t].len

\* A module with three placed strings, the last one ending off a 16-byte
\* boundary, so that the heap starts past the end of the data.
C7_Witness ==
    /\ pc = "generated"
    /\ Len(LastModule.data) >= 3
    /\ gen.data_idx % 16 # 0
    /\ LastModule.globals[1].init > gen.data_idx

IsEmptyPrint(st) == st.k \in {"Print", "Println"} /\ st.list = <<>>

\* C9: a print or println of an empty list emits no instruction: an entry
\* function made of such statements only has the body `end`.
C9_EmptyPrintEmitsNothing ==
    (/\ pc = "generated"
     /\ prog.functions = <<>>
     /\ prog.main_program.functions = <<>>
     /\ prog.main_program.main.body # <<>>
     /\ \A i \in DOMAIN prog.main_program.main.body :
           IsEmptyPrint(prog.main_program.main.body[i]))
        => LastModule.code[1].body = <<Ins("end", 0)>>

\* The texts the generator asked push_text for so far.
TextsUsed == {gen.uses[i].text : i \in DOMAIN gen.uses}

RECURSIVE HasNumToStr(_)
HasNumToStr(body) ==
    IF body = <<>> THEN FALSE
    ELSE \/ /\ Head(body).k \in {"Print", "Println"}
            /\ \E i \in DOMAIN Head(body).list : Head(body).list[i].k = "NumToStr"
         \/ HasNumToStr(Tail(body))

\* C15: within one generation every use of the same text, in whatever
\* function, gets the same Blob, the data region holds exactly one copy of
\* each text used, and a numeric-to-string conversion adds neither a pool
\* entry nor data: pool and data hold the texts used and nothing else.
C15_SharedPlacement ==
    /\ \A i, j \in DOMAIN gen.uses :
          gen.uses[i].text = gen.uses[j].text => gen.uses[i].blob = gen.uses[j].blob
    /\ \A i \in DOMAIN gen.uses :
          \E k \in DOMAIN gen.data :
              /\ gen.data[k].ptr = gen.uses[i].blob.ptr
              /\ gen.data[k].bytes = gen.uses[i].text
              /\ gen.uses[i].blob.len = Len(gen.uses[i].text)
    /\ \A i, j \in DOMAIN gen.data : gen.data[i].bytes = gen.data[j].bytes => i = j
    /\ DOMAIN gen.string_interner = TextsUsed
    /\ Len(gen.data) = Cardinality(TextsUsed)

\* A library function and the entry function used the same text, the entry
\* function also converted a number, and the module was assembled.
C15_Witness ==
    /\ pc = "generated"
    /\ prog.functions # <<>>
    /\ HasNumToStr(prog.main_program.main.body)
    /\ \E i, j \in DOMAIN gen.uses :
          i < j /\ gen.uses[i].text = gen.uses[j].text /\ gen.uses[i].text = <<"a">>
    /\ NewlineText \in TextsUsed

\* C16: when generation fails in any function, generate_wasm returns only
\* the error and no module, and the compile mode writes no .wasm and no .wat
\* file; every file written holds the module of a generate_wasm that
\* returned Ok before the write.
C16_NoArtifactOnError ==
    /\ pc = "gen_failed" =>
          /\ ~outs[Len(outs)].ok
          /\ DOMAIN outs[Len(outs)] = {"ok", "err"}
    /\ \A i \in DOMAIN files :
          /\ files[i].n \in DOMAIN outs
          /\ outs[files[i].n].ok
          /\ files[i].bytes = IF files[i].kind = "wat"
                               THEN print_bytes(outs[files[i].n].module)
                               ELSE outs[files[i].n].module
    /\ ~generate_wasm(New, prog_name, prog).ok =>
          /\ files = <<>>
          /\ \A i \in DOMAIN outs : ~outs[i].ok

\* Generation failed in a function that is not the first one, every time
\* the Program was compiled, and no file was written.
C16_Witness ==
    /\ pc = "gen_failed"
    /\ next_fn > 1
    /\ Len(outs) = MaxInvocations
    /\ files = <<>>

\* The index the declaration pass gave the entry function: it is declared
\* after the host imports, the library functions and the program-local ones.
EntryIndex == NumImports + Len(prog.functions) + Len(prog.main_program.functions)

\* C19: for every Program that generates, the function index exported as
\* main is the index the declaration pass assigned to the entry function,
\* whatever the other functions are called.
C19_MainExportIsEntry ==
    (pc \in {"generated", "written"} /\ outs[Len(outs)].ok) =>
        \E i \in DOMAIN LastModule.exports :
            /\ LastModule.exports[i].name = "main"
            /\ LastModule.exports[i].kind = "func"
            /\ LastModule.exports[i].index = EntryIndex

\* The names of the four imported functions, in index order.
ImportNames == <<"log", "to_str_i32", "to_str_f64", "concat">>

DeclaredFunctionNames ==
    {AllFunctions(prog)[i].name : i \in DOMAIN AllFunctions(prog)}
    \cup {ImportNames[i] : i \in DOMAIN ImportNames}

\* The declaration pass is over.
AllDeclared == pc \in {"generating", "finishing", "generated", "written", "gen_failed"}

\* The code emitted for function i calls, for each of its call statements, a
\* function index that was declared under the callee's name.
CallsResolved(i) ==
    LET fn == AllFunctions(prog)[i]
    IN  \A j \in DOMAIN fn.body :
            fn.body[j].k = "Call" =>
                \E c \in DOMAIN gen.code[i].body :
                    /\ gen.code[i].body[c].op = "call"
                    /\ gen.code[i].body[c].arg + 1 \in DOMAIN gen.fn_names
                    /\ gen.fn_names[gen.code[i].body[c].arg + 1].name = fn.body[j].name

\* C20: every function gets its index in declaration order (library, then
\* program-local, then entry) before any body is generated; a call resolves
\* a callee declared anywhere in the Program, also one declared later; and
\* the bodies are emitted in the order of the indices.
C20_DeclareThenGenerate ==
    /\ gen.code # <<>> => AllDeclared
    /\ AllDeclared =>
          /\ Len(gen.fn_names) = NumImports + Len(AllFunctions(prog))
          /\ \A i \in DOMAIN AllFunctions(prog) :
                gen.fn_names[NumImports + i] =
                    [idx |-> NumImports + i - 1, name |-> AllFunctions(prog)[i].name]
    /\ (pc = "gen_failed" /\ outs[Len(outs)].err.msg[1] = "unknown function") =>
          outs[Len(outs)].err.msg[2] \notin DeclaredFunctionNames
    /\ \A i \in DOMAIN gen.code :
          /\ i \in DOMAIN AllFunctions(prog)
          /\ gen.code[i].locals = gen_variables(AllFunctions(prog)[i].variables, 0)
          /\ CallsResolved(i)

\* A program-local function called the entry function, which is declared
\* after it, and the module was assembled.
C20_Witness ==
    /\ pc = "generated"
    /\ Len(prog.main_program.functions) = 1
    /\ prog.main_program.functions[1].body = <<CallSt("main", 3)>>
    /\ gen.code[Len(prog.functions) + 1].body = <<Ins("call", EntryIndex), Ins("end", 0)>>
    /\ prog.functions # <<>>

\* The Var nodes of e whose name is not among the declared locals, each as
\* the error that reports it.
RECURSIVE UndeclaredRefs(_, _)
UndeclaredRefs(e, variables) ==
    CASE e.k \in {"Int", "Float"} -> {}
      [] e.k = "Var" ->
            IF e.var.name \in DeclaredNames(variables) THEN {}
            ELSE {[pos |-> e.pos, msg |-> <<"unknown variable", e.var.name>>]}
      [] e.k = "Neg" -> UndeclaredRefs(e.inner, variables)
      [] e.k = "Binary" -> UndeclaredRefs(e.left, variables)
                              \cup UndeclaredRefs(e.right, variables)

\* The structural violations of one statement of a function with these
\* locals, `names` being the function-name table.
ViolationsOf(st, variables, names) ==
    CASE st.k \in {"Print", "Println"} ->
            UNION { IF st.list[i].k = "NumToStr"
                    THEN UndeclaredRefs(st.list[i].inner, variables) ELSE {}
                    : i \in DOMAIN st.list }
      [] st.k = "Call" ->
            IF st.name \in names THEN {}
            ELSE {[pos |-> st.pos, msg |-> <<"unknown function", st.name>>]}
      [] st.k = "Assignment" ->
            (IF st.expr.k # "Num"
             THEN {[pos |-> st.pos,
                    msg |-> <<"only numeric expressions are supported in assignments">>]}
             ELSE UndeclaredRefs(st.expr.e, variables))
            \cup (IF st.var.name \in DeclaredNames(variables) THEN {}
                  ELSE {[pos |-> st.pos, msg |-> <<"unknown variable", st.var.name>>]})

\* The statements of function i of the Program that hold a violation.
Violating(i) ==
    LET fn == AllFunctions(prog)[i]
    IN  {j \in DOMAIN fn.body :
            ViolationsOf(fn.body[j], fn.variables, DeclaredFunctionNames) # {}}

\* C21: a function with a structural violation makes generation return a
\* Generator error and nothing else, whose position and message are those
\* of a violation of the first violating statement; generation returns Ok
\* for no Program that holds a violation, and fails for no other reason.
C21_ViolationIsPositionedError ==
    /\ pc = "gen_failed" =>
          LET fn  == AllFunctions(prog)[next_fn]
              out == outs[Len(outs)]
              j   == CHOOSE j \in Violating(next_fn) : \A k \in Violating(next_fn) : j <= k
          IN  /\ Violating(next_fn) # {}
              /\ ~out.ok
              /\ DOMAIN out = {"ok", "err"}
              /\ DOMAIN out.err = {"pos", "msg"}
              /\ out.err \in ViolationsOf(fn.body[j], fn.variables, DeclaredFunctionNames)
              /\ \A i \in 1..(next_fn - 1) : Violating(i) = {}
    /\ pc = "generating" => \A i \in 1..(next_fn - 1) : Violating(i) = {}
    /\ pc \in {"finishing", "generated", "written"} =>
          \A i \in DOMAIN AllFunctions(prog) : Violating(i) = {}

\* Generation failed on the second statement of the entry function, after a
\* function and a statement that are in order, on a reference to an
\* undeclared variable inside a print.
C21_Witness ==
    /\ pc = "gen_failed"
    /\ next_fn = 2
    /\ Len(prog.main_program.main.body) = 2
    /\ Violating(2) = {2}
    /\ outs[Len(outs)].err = [pos |-> 17, msg |-> <<"unknown variable", "z">>]

IsAssignment(st) == st.k = "Assignment"

\* The places of a function body that store to a local.
SetPositions(code) == {c \in DOMAIN code : code[c].op = "local.set"}

\* The code that computes the value stored at place c: what follows the
\* last call or store before c (an expression holds neither).
ValueCode(code, c) ==
    LET before == {d \in 1..(c - 1) : code[d].op \in {"call", "local.set"}}
        p      == IF before = {} THEN 0
                  ELSE CHOOSE d \in before : \A e \in before : e <= d
    IN  SubSeq(code, p + 1, c - 1)

\* The slot of a name: the position of the first local declared with it.
FirstSlot(variables, name) ==
    (CHOOSE i \in DOMAIN variables :
        /\ variables[i].name = name
        /\ \A j \in 1..(i - 1) : variables[j].name # name) - 1

\* C22: in every function generated, each assignment is one store, in
\* statement order; the code before the store leaves exactly one value of
\* the variable's declared type, the store goes to the slot of the first
\* local of that name, and the machine local declared at that slot has the
\* type of the value stored.
C22_AssignmentStoresDeclaredType ==
    \A i \in DOMAIN gen.code :
        LET fn     == AllFunctions(prog)[i]
            code   == gen.code[i].body
            locals == gen.code[i].locals
            asg    == SelectSeq(fn.body, IsAssignment)
        IN  /\ Cardinality(SetPositions(code)) = Len(asg)
            /\ \A c \in SetPositions(code) :
                  LET st   == asg[Cardinality({d \in SetPositions(code) : d <= c})]
                      slot == FirstSlot(fn.variables, st.var.name)
                  IN  /\ code[c].arg = slot
                      /\ StackAfter(ValueCode(code, c), locals, ImportSigs) = <<st.var.ty>>
                      /\ slot + 1 \in DOMAIN locals
                      /\ locals[slot + 1] = st.var.ty

\* A function with a redeclared local was generated: an Int32 sum was
\* stored in the Float64 local that the redeclared name designates, and a
\* Float64 quotient in an Int32 local.
C22_Witness ==
    /\ pc = "generated"
    /\ prog.main_program.functions = <<RedeclFn>>
    /\ gen.code[1].locals = <<"F64", "I32", "I32">>
    /\ Cardinality(SetPositions(gen.code[1].body)) = 3
    /\ \E c \in SetPositions(gen.code[1].body) :
          /\ gen.code[1].body[c].arg = 0
          /\ gen.code[1].body[c - 1].op = "f64.add"
    /\ \E c \in SetPositions(gen.code[1].body) :
          /\ gen.code[1].body[c].arg = 2
          /\ gen.code[1].body[c - 1].op = "i32.div_s"
    /\ SetPositions(gen.code[2].body) # {}

IsPrint(st) == st.k \in {"Print", "Println"}

\* The function index of an imported host function.
ImportIndex(name) == (CHOOSE i \in DOMAIN ImportNames : ImportNames[i] = name) - 1

\* The places of a function body that call function f.
CallsOf(code, f) == {c \in DOMAIN code : code[c] = Ins("call", f)}

\* The code from place i on without the places in `drop`.
RECURSIVE Keep(_, _, _)
Keep(code, drop, i) ==
    IF i > Len(code) THEN <<>>
    ELSE (IF i \in drop THEN <<>> ELSE <<code[i]>>) \o Keep(code, drop, i + 1)

\* What one string expression puts on the stack: the (ptr, len) of its
\* placed text, or the number followed by the call of its converter.
ElementCode(e, fn) ==
    CASE e.k = "Str" -> PushBlob(gen.string_interner[e.s])
      [] e.k = "Nl"  -> PushBlob(gen.string_interner[NewlineText])
      [] e.k = "NumToStr" ->
            gen_expression(e.inner, fn).instr
               \o <<Ins("call", IF infer_type(e.inner) = "I32"
                                THEN ImportIndex("to_str_i32")
                                ELSE ImportIndex("to_str_f64"))>>

RECURSIVE ElementsCode(_, _, _)
ElementsCode(list, fn, i) ==
    IF i > Len(list) THEN <<>>
    ELSE ElementCode(list[i], fn) \o ElementsCode(list, fn, i + 1)

\* A (ptr, len) pair on the stack.
Pair == <<"I32", "I32">>

\* C26: the code of a print of n >= 1 string expressions is the elements in
\* list order, n - 1 calls of concat (n for println, the last one after
\* the newline constant) and one call of log, the last instruction; at
\* each call of concat the stack holds exactly two (ptr, len) pairs, at the
\* call of log exactly one, and the body ends with an empty stack.
C26_PrintFoldsLeftToRight ==
    \A i \in DOMAIN gen.code :
        LET fn   == AllFunctions(prog)[i]
            code == gen.code[i].body
            loc  == gen.code[i].locals
        IN  (Len(fn.body) = 1 /\ IsPrint(fn.body[1]) /\ fn.body[1].list # <<>>) =>
                LET list    == fn.body[1].list
                    nl      == fn.body[1].k = "Println"
                    concats == CallsOf(code, ImportIndex("concat"))
                    logs    == CallsOf(code, ImportIndex("log"))
                IN  /\ Cardinality(concats) = (IF nl THEN Len(list) ELSE Len(list) - 1)
                    /\ logs = {Len(code) - 1}
                    /\ code[Len(code)] = Ins("end", 0)
                    /\ Keep(code, concats \cup logs \cup {Len(code)}, 1)
                          = ElementsCode(list, fn, 1)
                               \o (IF nl THEN PushBlob(gen.string_interner[NewlineText])
                                   ELSE <<>>)
                    /\ \A c \in concats :
                          StackAfter(SubSeq(code, 1, c - 1), loc, ImportSigs) = Pair \o Pair
                    /\ StackAfter(SubSeq(code, 1, Len(code) - 2), loc, ImportSigs) = Pair
                    /\ StackAfter(code, loc, ImportSigs) = <<>>

\* C27: after the declaration pass the name of every declared function is
\* mapped to the index that function was declared at, the local-name table
\* generated with the k-th body is attached to the index of the k-th
\* function, and no two declarations got the same index.
C27_NameMapsToOwnIndex ==
    AllDeclared =>
        /\ \A i \in DOMAIN AllFunctions(prog) :
              gen.fn_map[AllFunctions(prog)[i].name] = NumImports + i - 1
        /\ \A k \in DOMAIN gen.names.locals :
              gen.names.locals[k].fn = NumImports + k - 1
        /\ \A i, j \in DOMAIN gen.fn_names :
              i # j => gen.fn_names[i].idx # gen.fn_names[j].idx

\* The signatures of the function index space of the module being
\* generated: the imports, then the declared functions.
ModuleSigs == ImportSigs \o [k \in 1..Len(AllFunctions(prog)) |-> VoidSig]

\* C28: the code of a function made of call statements is one direct call
\* per statement, each of a user-declared function of type () -> () and
\* never of an imported host function, and the body is stack-valid.
C28_CallTargetsUserFunction ==
    \A i \in DOMAIN gen.code :
        LET fn   == AllFunctions(prog)[i]
            code == gen.code[i].body
        IN  (fn.body # <<>> /\ \A j \in DOMAIN fn.body : fn.body[j].k = "Call") =>
                /\ Len(code) = Len(fn.body) + 1
                /\ \A c \in DOMAIN fn.body :
                      /\ code[c].op = "call"
                      /\ code[c].arg >= NumImports
                      /\ code[c].arg + 1 \in DOMAIN ModuleSigs
                      /\ ModuleSigs[code[c].arg + 1] = VoidSig
                /\ StackAfter(code, gen.code[i].locals, ModuleSigs) = <<>>

\* ------------------------------------- specification of the Execution Host

\* Programs whose modules main.rs hands to run_wasm_bytes: one statement in
\* the entry function.
SingleStatementPrograms ==
    { Program(<<>>, <<>>, Function("main", <<st>>, MainLocals)) : st \in StmtPool }

\* local int x; let x = 2 + 3; print(to_str(x))
ScenarioA ==
    Program(<<>>, <<>>,
            Function("main",
                     <<AssignmentSt(MainLocals[1], NumX(BinaryE("Add", IntE(2), IntE(3))), 5),
                       PrintSt(<<NumToStrS(VarX)>>)>>,
                     MainLocals))

\* print(to_str(1 + 1.5))
ScenarioMixed ==
    Program(<<>>, <<>>,
            Function("main",
                     <<PrintSt(<<NumToStrS(BinaryE("Add", IntE(1), FloatE(3)))>>)>>,
                     MainLocals))

\* local int x; let x = 1e20  (and let x = NaN)
ScenarioD(v) ==
    Program(<<>>, <<>>,
            Function("main", <<AssignmentSt(MainLocals[1], NumX(FloatE(v)), 5)>>, MainLocals))

RunPrograms ==
    SingleStatementPrograms
    \cup {ScenarioA, ScenarioMixed, ScenarioD(F64Codes.huge), ScenarioD(F64Codes.nan)}

\* Modules read from a file (run_wasm_file) that import what the runner
\* provides.  Their data: "a" at 0, "b" at 16, an invalid byte at 32.
RunnerData ==
    << [mem |-> 0, ptr |-> 0, bytes |-> <<"a">>],
       [mem |-> 0, ptr |-> 16, bytes |-> <<"b">>],
       [mem |-> 0, ptr |-> 32, bytes |-> <<BadByte>>] >>

RunnerImports ==
    << [module |-> "env", name |-> "log", ty |-> [kind |-> "func", type |-> 1]],
       [module |-> "str", name |-> "to_str", ty |-> [kind |-> "func", type |-> 2]],
       [module |-> "str", name |-> "concat", ty |-> [kind |-> "func", type |-> 3]],
       MemoryImport >>

RunnerTypes ==
    << VoidSig,
       [p |-> <<"I32", "I32">>, r |-> <<>>],
       [p |-> <<"I32">>, r |-> <<"I32", "I32">>],
       [p |-> <<"I32", "I32", "I32", "I32">>, r |-> <<"I32", "I32">>] >>

MainExport == [name |-> "main", kind |-> "func", index |-> 3]

HeapPtrExport == [name |-> "heap_ptr", kind |-> "global", index |-> 0]

RunnerModule(body, exports, start) ==
    [ types |-> RunnerTypes, imports |-> RunnerImports, functions |-> <<0>>,
      globals |-> <<[val_type |-> "I32", mutable |-> TRUE, shared |-> FALSE, init |-> 48]>>,
      exports |-> exports,
      code |-> <<[locals |-> <<>>, body |-> body \o <<Ins("end", 0)>>]>>,
      data |-> RunnerData,
      names |-> [module |-> <<"r">>, functions |-> <<>>, locals |-> <<>>],
      start |-> start ]

\* What a guest does with the host: log a string, log the text of a
\* number, log a concatenation.
LogUnit(ptr, len) == <<Ins("i32.const", ptr), Ins("i32.const", len), Ins("call", 0)>>

ToStrUnit(n) == <<Ins("i32.const", n), Ins("call", 1), Ins("call", 0)>>

ConcatUnit(p1, l1, p2, l2) ==
    <<Ins("i32.const", p1), Ins("i32.const", l1), Ins("i32.const", p2),
      Ins("i32.const", l2), Ins("call", 2), Ins("call", 0)>>

GuestUnits ==
    { LogUnit(0, 1), LogUnit(16, 1), LogUnit(32, 1), LogUnit(0, 0), LogUnit(MemoryBytes, 1),
      ToStrUnit(0), ToStrUnit(7), ToStrUnit(0 - 12),
      ConcatUnit(0, 1, 16, 1), ConcatUnit(16, 1, 48, 2), ConcatUnit(0, 0, 16, 0) }

RECURSIVE GuestBodiesOfLen(_)
GuestBodiesOfLen(n) ==
    IF n = 0 THEN {<<>>}
    ELSE {b \o u : b \in GuestBodiesOfLen(n - 1), u \in GuestUnits}

GuestBodies == UNION {GuestBodiesOfLen(n) : n \in 0..MaxGuestCalls}

\* A module for the runner's imports whose entry function has locals.
RunnerModuleWith(locals, body) ==
    [RunnerModule(body, <<MainExport, HeapPtrExport>>, <<>>) EXCEPT !.code[1].locals = locals]

\* Entry functions that compute: x = a op b then log(to_str(x)); x = trunc(v)
\* then log(to_str(x)).
ArithBody(op, a, b) ==
    <<Ins("i32.const", a), Ins("i32.const", b), Ins(op, 0), Ins("local.set", 0),
      Ins("local.get", 0), Ins("call", 1), Ins("call", 0)>>

TruncBody(v) ==
    <<Ins("f64.const", v), Ins("i32.trunc_f64_s", 0), Ins("local.set", 0),
      Ins("local.get", 0), Ins("call", 1), Ins("call", 0)>>

ComputingModules ==
    { RunnerModuleWith(<<"I32">>, ArithBody(op, 2, b)) :
        op \in {"i32.add", "i32.sub", "i32.mul", "i32.div_s"}, b \in {0, 3} }
    \cup { RunnerModuleWith(<<"I32">>, TruncBody(v)) :
             v \in {3, 0 - 3, F64Codes.huge, F64Codes.nan} }

RunnerModules ==
    { RunnerModule(body, <<MainExport, HeapPtrExport>>, <<>>) : body \in GuestBodies }
    \cup ComputingModules
    \cup { RunnerModule(LogUnit(0, 1), <<MainExport>>, <<>>),
           RunnerModule(LogUnit(0, 1), <<HeapPtrExport>>, <<>>),
           RunnerModule(LogUnit(0, 1), <<MainExport, HeapPtrExport>>, <<3>>),
           RunnerModule(ToStrUnit(7), <<MainExport, HeapPtrExport>>, <<3>>),
           RunnerModule(ConcatUnit(0, 1, 16, 1), <<MainExport, HeapPtrExport>>, <<3>>) }

\* main.rs runs the module of a successful generate_wasm; run_wasm_file
\* runs any module.
InitRun ==
    /\ pc = "run_start"
    /\ function = FunctionOf(<<>>)
    /\ expr = IntE(0)
    /\ target = NoneTy
    /\ ety = NoneTy
    /\ res = NoRes
    /\ gen = New
    /\ call = NoCall
    /\ requested = EmptyMap
    /\ prog_name \in ModuleNames
    /\ next_fn = 1
    /\ outs = <<>>
    /\ files = <<>>
    /\ \/ /\ prog \in RunPrograms
          /\ \E r \in {generate_wasm(New, prog_name, prog)} :
                /\ r.ok
                /\ wasm = r.module
       \/ /\ prog = NoProgram
          /\ wasm \in RunnerModules
    /\ host = NewHost
    /\ guest = NoGuest
    /\ hcall = NoHostCall

Fail(msg) == [host EXCEPT !.err = msg]

\* let module = Module::new(&engine, wasm_bytes)?; then the store, the
\* memory and the linker definitions.
ModuleNew ==
    /\ pc = "run_start"
    /\ IF Validate(wasm)
       THEN pc' = "Created" /\ host' = host
       ELSE pc' = "Failed" /\ host' = Fail(<<"invalid module">>)
    /\ UNCHANGED <<exprVars, gen, poolVars, progVars, wasm, guest, hcall>>

\* linker.instantiate_and_start(&mut store, &module)?
InstantiateAndStart ==
    /\ pc = "Created"
    /\ LET missing == Unresolved(wasm)
       IN  IF missing # {}
           THEN LET i == CHOOSE i \in missing : \A j \in missing : i <= j
                IN  /\ pc' = "Failed"
                    /\ host' = Fail(<<"unresolved import", wasm.imports[i].module,
                                      wasm.imports[i].name>>)
                    /\ guest' = guest
           ELSE IF \E i \in DOMAIN wasm.data :
                      ~InBounds(wasm.data[i].ptr, Len(wasm.data[i].bytes))
           THEN /\ pc' = "Failed"
                /\ host' = Fail(<<"out of bounds memory access">>)
                /\ guest' = guest
           ELSE /\ host' = [host EXCEPT
                               !.memory = init_data(host.memory, wasm.data, 1),
                               !.globals = [i \in DOMAIN wasm.globals |-> wasm.globals[i].init]]
                /\ IF StartOf(wasm) # <<>>
                   THEN /\ pc' = "Starting"
                        /\ guest' = [frames |-> <<NewFrame(wasm, StartOf(wasm)[1], <<>>)>>,
                                     stack |-> <<>>]
                   ELSE /\ pc' = "Instantiated"
                        /\ guest' = guest
    /\ UNCHANGED <<exprVars, gen, poolVars, progVars, wasm, hcall>>

\* .ok_or_else(|| anyhow!("export 'heap_ptr' not found"))? on the Option
\* that get_global returned.
export_optional(e) == FALSE

export_missing(e) == e = <<>>

\* instance.get_global(&store, "heap_ptr") stored in heap_ptr_cell.
GetHeapPtr ==
    /\ pc = "Instantiated"
    /\ LET e == find_export(wasm, "heap_ptr", "global")
       IN  IF export_missing(e)
           THEN pc' = "Failed" /\ host' = Fail(<<"export 'heap_ptr' not found">>)
           ELSE pc' = "GlobalBound" /\ host' = [host EXCEPT !.heap_ptr_cell = e]
    /\ UNCHANGED <<exprVars, gen, poolVars, progVars, wasm, guest, hcall>>

\* instance.get_typed_func::<(), ()>(&store, "main")? and the call.
CallMain ==
    /\ pc = "GlobalBound"
    /\ LET e == find_export(wasm, "main", "func")
       IN  IF e = <<>> \/ FuncSigs(wasm)[e[1] + 1] # VoidSig
              \/ e[1] < Len(FuncImports(wasm))
           THEN pc' = "Failed" /\ host' = Fail(<<"export 'main' not found">>)
                               /\ guest' = guest
           ELSE /\ pc' = "Running"
                /\ host' = host
                /\ guest' = [frames |-> <<NewFrame(wasm, e[1], <<>>)>>, stack |-> <<>>]
    /\ UNCHANGED <<exprVars, gen, poolVars, progVars, wasm, hcall>>

Executing == pc \in {"Starting", "Running"} /\ guest.frames # <<>>

\* The guest is about to execute an instruction that traps: a division by
\* zero, a truncation of NaN or of a value outside the i32 range.
Traps ==
    /\ Executing
    /\ LET ins == CurrentIns(wasm, guest)
           top == guest.stack[Len(guest.stack)]
       IN  \/ ins.op = "i32.div_s" /\ top = 0
           \/ ins.op = "i32.trunc_f64_s" /\ TruncTraps(top)

\* One guest instruction that is neither `end` nor a call of an import and
\* does not trap.
Exec ==
    /\ Executing
    /\ ~Traps
    /\ LET ins == CurrentIns(wasm, guest)
           fr  == guest.frames[Len(guest.frames)]
           top == guest.stack[Len(guest.stack)]
           snd == guest.stack[Len(guest.stack) - 1]
       IN  CASE ins.op \in {"i32.const", "f64.const"} -> guest' = Advance(guest, 0, <<ins.arg>>)
             [] ins.op \in {"i32.add", "i32.sub", "i32.mul", "i32.div_s"} ->
                   guest' = Advance(guest, 2, <<i32_arith(ins.op, snd, top)>>)
             [] ins.op \in {"f64.add", "f64.sub"} ->
                   guest' = Advance(guest, 2, <<f64_arith(ins.op, snd, top)>>)
             [] ins.op = "f64.neg" ->
                   guest' = Advance(guest, 1, <<IF top = F64Codes.nan THEN top ELSE 0 - top>>)
             [] ins.op = "f64.convert_i32_s" -> guest' = Advance(guest, 1, <<2 * top>>)
             [] ins.op = "i32.trunc_f64_s" -> guest' = Advance(guest, 1, <<trunc_f64_s(top)>>)
             [] ins.op = "local.get" ->
                   guest' = Advance(guest, 0, <<fr.locals[ins.arg + 1]>>)
             [] ins.op = "local.set" ->
                   guest' = [Advance(guest, 1, <<>>) EXCEPT
                                !.frames[Len(guest.frames)].locals[ins.arg + 1] =
                                    guest.stack[Len(guest.stack)]]
             [] ins.op = "call" /\ ins.arg >= Len(FuncImports(wasm)) ->
                   LET np == Len(FuncSigs(wasm)[ins.arg + 1].p)
                       g1 == Advance(guest, np, <<>>)
                   IN  guest' = [g1 EXCEPT !.frames =
                                    Append(@, NewFrame(wasm, ins.arg, TopN(guest.stack, np)))]
             [] OTHER -> FALSE
    /\ UNCHANGED <<pc, exprVars, gen, poolVars, progVars, wasm, host, hcall>>

\* A trapping instruction ends the run: main_fn.call returns the error.
Trap ==
    /\ Traps
    /\ pc' = "Trapped"
    /\ host' = Fail(<<"trap", CurrentIns(wasm, guest).op>>)
    /\ UNCHANGED <<exprVars, gen, poolVars, progVars, wasm, guest, hcall>>

\* `end` of a function body: back to the caller, or to the host after the
\* last frame.
Return ==
    /\ Executing
    /\ CurrentIns(wasm, guest).op = "end"
    /\ guest' = [guest EXCEPT !.frames = SubSeq(@, 1, Len(@) - 1)]
    /\ pc' = IF Len(guest.frames) > 1 THEN pc
             ELSE IF pc = "Starting" THEN "Instantiated" ELSE "Done"
    /\ UNCHANGED <<exprVars, gen, poolVars, progVars, wasm, host, hcall>>

Panic(msg) ==
    /\ pc' = "Panicked"
    /\ host' = Fail(msg)
    /\ guest' = guest
    /\ hcall' = hcall

HostCall(name, args, ret) ==
    [n |-> hcall.n + 1, name |-> name, args |-> args, before |-> host, ret |-> ret,
     regions |-> hcall.regions]

\* A println! that also moves every global of the store.
log_store_bumping(h, bytes) ==
    [h EXCEPT !.stdout = @ \o println_macro(from_utf8_lossy(bytes)),
              !.globals = [i \in DOMAIN @ |-> @[i] + 16]]

\* println!("{}", String::from_utf8_lossy(&bytes)): the store after it.
log_store(h, bytes) ==
    [h EXCEPT !.stdout = @ \o println_macro(from_utf8_lossy(bytes))]

\* env.log(ptr, len)
HostLog ==
    /\ Executing
    /\ CallsImport(wasm, guest, "env", "log")
    /\ LET args == TopN(guest.stack, 2)
           ptr  == args[1]
           len  == args[2]
       IN  IF ~InBounds(ptr, len) THEN Panic(<<"mem read">>)
           ELSE LET bytes == read_slice(host.memory, ptr, len)
                IN  /\ host' = log_store(host, bytes)
                    /\ guest' = Advance(guest, 2, <<>>)
                    /\ hcall' = HostCall("log", args, <<>>)
                    /\ pc' = pc
    /\ UNCHANGED <<exprVars, gen, poolVars, progVars, wasm>>

\* heap_cell.lock().unwrap().as_ref().cloned(): the handle in the cell, <<>>
\* for None.
cell_handle_or_first(cell) == IF cell = <<>> THEN <<0>> ELSE cell

cell_handle(cell) == cell

\* A cursor that stays where it is.
next_stay(ptr, len) == ptr

\* let next = align_up(ptr + bytes.len() as u32, 16)
next(ptr, len) == runner_align_up(ptr + len, 16)

\* The bump allocation shared by str.to_str and str.concat: the bytes go to
\* the address in heap_ptr, which moves to the next multiple of 16.
Allocate(name, args, bytes) ==
    IF cell_handle(host.heap_ptr_cell) = <<>> THEN Panic(<<"heap_ptr global not set yet">>)
    ELSE LET idx == cell_handle(host.heap_ptr_cell)[1] + 1
             ptr == host.globals[idx]
         IN  IF wasm.globals[idx].val_type # "I32" THEN Panic(<<"heap_ptr must be i32">>)
             ELSE IF ~InBounds(ptr, Len(bytes)) THEN Panic(<<"mem write">>)
             ELSE IF ~wasm.globals[idx].mutable THEN Panic(<<"set heap_ptr">>)
             ELSE /\ host' = [host EXCEPT
                                 !.memory = write_slice(host.memory, ptr, bytes),
                                 !.globals[idx] = next(ptr, Len(bytes))]
                  /\ guest' = Advance(guest, Len(args), <<ptr, Len(bytes)>>)
                  /\ hcall' = [HostCall(name, args, <<ptr, Len(bytes)>>) EXCEPT
                                  !.regions = Append(@, [ptr |-> ptr, len |-> Len(bytes),
                                                         next |-> next(ptr, Len(bytes))])]
                  /\ pc' = pc

\* str.to_str(n)
HostToStr ==
    /\ Executing
    /\ CallsImport(wasm, guest, "str", "to_str")
    /\ LET args == TopN(guest.stack, 1)
       IN  Allocate("to_str", args, to_string(args[1]))
    /\ UNCHANGED <<exprVars, gen, poolVars, progVars, wasm>>

\* The second range first.
concat_bytes_swapped(mem, p1, l1, p2, l2) ==
    read_slice(mem, p2, l2) \o read_slice(mem, p1, l1)

\* b1 and b2, both read before anything is written, one after the other.
concat_bytes(mem, p1, l1, p2, l2) ==
    read_slice(mem, p1, l1) \o read_slice(mem, p2, l2)

\* str.concat(p1, l1, p2, l2)
HostConcat ==
    /\ Executing
    /\ CallsImport(wasm, guest, "str", "concat")
    /\ LET args == TopN(guest.stack, 4)
       IN  IF ~InBounds(args[1], args[2]) \/ ~InBounds(args[3], args[4])
           THEN Panic(<<"mem read">>)
           ELSE Allocate("concat", args,
                         concat_bytes(host.memory, args[1], args[2], args[3], args[4]))
    /\ UNCHANGED <<exprVars, gen, poolVars, progVars, wasm>>

NextRun ==
    \/ ModuleNew
    \/ InstantiateAndStart
    \/ GetHeapPtr
    \/ CallMain
    \/ Exec
    \/ Trap
    \/ Return
    \/ HostLog
    \/ HostToStr
    \/ HostConcat

SpecRun == InitRun /\ [][NextRun]_vars

\* ------------------------------------------------ claims on SpecRun

RunEnded == pc \in {"Done", "Trapped", "Failed", "Panicked"}

EntryPrints(list, nl) ==
    prog = Program(<<>>, <<>>,
                   Function("main", <<IF nl THEN PrintlnSt(list) ELSE PrintSt(list)>>,
                            MainLocals))

AB == <<StrS(<<"a">>), StrS(<<"b">>)>>

\* The last host call was env.log and it returned.
LogReturned == hcall.n > 0 /\ hcall.name = "log"

\* C10: the run of print("a", "b") writes exactly the two bytes "ab"; the
\* run of println("a", "b") writes exactly "ab" and one newline; a call of
\* the output host function adds to standard output exactly the len bytes it
\* read from guest memory.
C10_PrintWritesExactly ==
    /\ (RunEnded /\ EntryPrints(AB, FALSE)) => host.stdout = <<"a", "b">>
    /\ (RunEnded /\ EntryPrints(AB, TRUE)) => host.stdout = <<"a", "b", "\n">>
    /\ LogReturned =>
          host.stdout = hcall.before.stdout
                           \o read_slice(hcall.before.memory, hcall.args[1], hcall.args[2])

\* The run is past linker.instantiate_and_start.
PastInstantiation == pc \notin {"run_start", "Created"}

\* C11: every import declared by a module that generate_wasm produced is
\* defined by the Execution Host under the same module and field name with
\* the same type, so instantiating the module never fails on an unresolved
\* or mistyped import.
C11_ImportsSupplied ==
    (prog # NoProgram /\ Validate(wasm) /\ PastInstantiation) =>
        /\ \A i \in DOMAIN wasm.imports : Resolves(wasm, wasm.imports[i])
        /\ host.err # <<>> => host.err[1] # "unresolved import"

\* The code of the entry function of the module being run (the last body).
EntryCode == wasm.code[Len(wasm.code)].body

\* C12: compiling and running `local int x; let x = 2 + 3; print(to_str(x))`
\* reaches Done, with no instantiation error and no trap, and the output is
\* the decimal text of the value, 5.
C12_ScenarioAPrintsFive ==
    (RunEnded /\ prog = ScenarioA) => (pc = "Done" /\ host.stdout = <<"5">>)

\* C13: to_str(e) lowers e in its inferred type and calls the converter of
\* that type; for 1 + 1.5 the literal 1 is widened, a Float64 add and the
\* Float64 converter are emitted, and the run prints 2.5.
C13_MixedToStrPrints ==
    prog = ScenarioMixed =>
        /\ EntryCode = << Ins("i32.const", 1), Ins("f64.convert_i32_s", 0),
                          Ins("f64.const", 3), Ins("f64.add", 0), Ins("call", 2),
                          Ins("call", 0), Ins("end", 0) >>
        /\ RunEnded => (pc = "Done" /\ host.stdout = <<"2", ".", "5">>)

IsScenarioD == prog \in {ScenarioD(F64Codes.huge), ScenarioD(F64Codes.nan)}

\* C14: a Float64 literal lowered to an Int32 target gives no generation
\* error: the literal and an unchecked truncation are emitted, and when the
\* value is NaN or outside the Int32 range the run ends in Trapped.
C14_FloatToIntTraps ==
    IsScenarioD =>
        /\ \E v \in {F64Codes.huge, F64Codes.nan} :
              EntryCode = << Ins("f64.const", v), Ins("i32.trunc_f64_s", 0),
                             Ins("local.set", 0), Ins("end", 0) >>
        /\ RunEnded => pc = "Trapped"

\* The steps run_wasm_bytes can take from one phase to the next; Starting is
\* the start function running inside instantiate_and_start, Failed an error
\* returned before the entry function, Panicked a host function that panicked.
PhaseSteps ==
    { <<"run_start", "Created">>, <<"run_start", "Failed">>,
      <<"Created", "Starting">>, <<"Created", "Instantiated">>, <<"Created", "Failed">>,
      <<"Starting", "Starting">>, <<"Starting", "Instantiated">>,
      <<"Starting", "Trapped">>, <<"Starting", "Panicked">>,
      <<"Instantiated", "GlobalBound">>, <<"Instantiated", "Failed">>,
      <<"GlobalBound", "Running">>, <<"GlobalBound", "Failed">>,
      <<"Running", "Running">>, <<"Running", "Done">>,
      <<"Running", "Trapped">>, <<"Running", "Panicked">> }

\* C17: a run goes through Created, Instantiated, Global-Bound, Running and
\* then ends; the heap_ptr handle is stored only after instantiation
\* succeeded, the entry function is invoked only after the handle is stored,
\* and a failed instantiation or heap_ptr lookup ends the run with an error
\* without the entry function being invoked.
C17_PhaseOrder ==
    [][ /\ <<pc, pc'>> \in PhaseSteps
        /\ host'.heap_ptr_cell # host.heap_ptr_cell =>
              (pc = "Instantiated" /\ pc' = "GlobalBound" /\ Unresolved(wasm) = {})
        /\ (pc # "Running" /\ pc' = "Running") =>
              (pc = "GlobalBound" /\ host.heap_ptr_cell # <<>>)
        /\ pc' = "Failed" =>
              (host'.err # <<>> /\ guest' = NoGuest /\ hcall' = hcall) ]_vars

\* A run that went through every phase and whose guest used the handle.
C17_Witness ==
    /\ pc = "Done"
    /\ host.heap_ptr_cell # <<>>
    /\ hcall.n > 1
    /\ host.globals[host.heap_ptr_cell[1] + 1] > wasm.globals[host.heap_ptr_cell[1] + 1].init

\* The guest is about to call str.to_str or str.concat.
CallsAllocator ==
    \/ CallsImport(wasm, guest, "str", "to_str")
    \/ CallsImport(wasm, guest, "str", "concat")

\* C18: an allocator-backed host function called while the heap_ptr cell is
\* empty fails loudly and aborts the run: guest memory and the heap cursor
\* are unchanged and no (ptr, len) pair is returned to the guest.
C18_EmptyCellFailsLoudly ==
    [][ (Executing /\ CallsAllocator /\ host.heap_ptr_cell = <<>>) =>
            /\ pc' = "Panicked"
            /\ host'.err # <<>>
            /\ host'.memory = host.memory
            /\ host'.globals = host.globals
            /\ host'.stdout = host.stdout
            /\ guest' = guest
            /\ hcall' = hcall ]_vars

\* The start function called an allocator-backed host function and the run
\* was aborted.
C18_Witness ==
    /\ pc = "Panicked"
    /\ StartOf(wasm) # <<>>
    /\ host.heap_ptr_cell = <<>>
    /\ host.err = <<"heap_ptr global not set yet">>
    /\ CallsImport(wasm, guest, "str", "concat")

\* The initial value of the global that heap_ptr_cell designates.
InitialCursor == wasm.globals[host.heap_ptr_cell[1] + 1].init

\* The ranges [ptr, ptr + len) of two allocations have no byte in common.
Disjoint(r, q) == r.ptr + r.len <= q.ptr \/ q.ptr + q.len <= r.ptr

\* C23: in every state of a run the regions returned so far by str.to_str
\* and str.concat with len > 0 are pairwise disjoint and start at or above
\* the initial value of heap_ptr, and no step decreases a global: the
\* allocator neither reuses nor frees space.
C23_BumpOnly ==
    /\ [](/\ \A i, j \in DOMAIN hcall.regions :
                (i # j /\ hcall.regions[i].len > 0 /\ hcall.regions[j].len > 0) =>
                    Disjoint(hcall.regions[i], hcall.regions[j])
          /\ \A i \in DOMAIN hcall.regions :
                /\ hcall.regions[i].ptr >= InitialCursor
                /\ host.globals[host.heap_ptr_cell[1] + 1]
                       >= hcall.regions[i].ptr + hcall.regions[i].len)
    /\ [][ host.globals # <<>> =>
              \A i \in DOMAIN host.globals : host'.globals[i] >= host.globals[i] ]_vars

\* A run made a numeric-to-text call and then a concat call; the two
\* regions are not empty and the second starts past the first.
C23_Witness ==
    /\ pc = "Done"
    /\ Len(hcall.regions) = 2
    /\ hcall.regions[1].len = 3
    /\ hcall.regions[2].len = 2
    /\ hcall.regions[2].ptr > hcall.regions[1].ptr
    /\ read_slice(host.memory, hcall.regions[1].ptr, 3) = <<"-", "1", "2">>

\* The last host call was str.to_str or str.concat and it returned.
AllocatorReturned == hcall.n > 0 /\ hcall.name \in {"to_str", "concat"}

\* C24: an allocator-backed call returns as ptr the heap cursor it found and
\* leaves the cursor at the smallest multiple of 16 that is >= ptr + len;
\* the module of generate_wasm starts the cursor at a multiple of 16, and a
\* cursor that starts at a multiple of 16 is one in every state of the run.
C24_CursorAlignedTo16 ==
    /\ AllocatorReturned =>
          /\ hcall.ret[1] = hcall.before.globals[host.heap_ptr_cell[1] + 1]
          /\ host.globals[host.heap_ptr_cell[1] + 1]
                = SmallestMultipleGE(hcall.ret[1] + hcall.ret[2], 16)
    /\ prog # NoProgram => \A i \in DOMAIN wasm.globals : wasm.globals[i].init % 16 = 0
    /\ (\A i \in DOMAIN wasm.globals : wasm.globals[i].init % 16 = 0) =>
          \A i \in DOMAIN host.globals : host.globals[i] % 16 = 0

\* An allocation of three bytes moved the cursor from 48 to 64, and an
\* empty concat that followed left it there.
C24_Witness ==
    /\ AllocatorReturned
    /\ Len(hcall.regions) = 2
    /\ hcall.regions[1] = [ptr |-> 48, len |-> 3, next |-> 64]
    /\ hcall.ret = <<64, 0>>
    /\ host.globals = <<64>>

\* The byte at address a of a memory.
ByteAt(mem, a) == IF a \in DOMAIN mem THEN mem[a] ELSE ZeroByte

\* C25: concat(p1, l1, p2, l2) returns (ptr, l1 + l2), ptr being the heap
\* cursor; after the call memory at [ptr, ptr + l1 + l2) holds the l1 bytes
\* that were at p1 before the call followed by the l2 bytes that were at p2
\* before the call, also when a source range overlaps the destination, and
\* every byte outside the destination is as before.
C25_ConcatCopiesBothRanges ==
    (hcall.n > 0 /\ hcall.name = "concat") =>
        LET l1    == hcall.args[2]
            l2    == hcall.args[4]
            ptr   == hcall.ret[1]
            old   == hcall.before.memory
        IN  /\ hcall.ret = <<hcall.before.globals[host.heap_ptr_cell[1] + 1], l1 + l2>>
            /\ \A k \in 1..l1 :
                  ByteAt(host.memory, ptr + k - 1) = ByteAt(old, hcall.args[1] + k - 1)
            /\ \A k \in 1..l2 :
                  ByteAt(host.memory, ptr + l1 + k - 1) = ByteAt(old, hcall.args[3] + k - 1)
            /\ \A a \in DOMAIN host.memory \cup DOMAIN old :
                  (a < ptr \/ a >= ptr + l1 + l2) => ByteAt(host.memory, a) = ByteAt(old, a)

\* A concat whose second source range, [48, 50), overlaps its destination,
\* [48, 51): the destination holds "b" and the two bytes that were at 48.
C25_Witness ==
    /\ hcall.name = "concat"
    /\ hcall.args = <<16, 1, 48, 2>>
    /\ hcall.ret = <<48, 3>>
    /\ read_slice(host.memory, 48, 3) = <<"b", ZeroByte, ZeroByte>>
    /\ read_slice(hcall.before.memory, 48, 2) = <<ZeroByte, ZeroByte>>

\* The instructions the generator emits.
GeneratorOps ==
    { "i32.const", "f64.const", "f64.convert_i32_s", "i32.trunc_f64_s",
      "i32.add", "i32.sub", "i32.mul", "i32.div_s",
      "f64.add", "f64.sub", "f64.mul", "f64.div", "f64.neg",
      "local.get", "local.set", "call", "end" }

\* The step is a host call that returned.
HostCallStep == hcall'.n = hcall.n + 1

\* C29: the code of a generated module holds no instruction that writes a
\* global; a step changes a global only if it is a call of str.to_str or
\* str.concat; a call of env.log leaves globals and guest memory as they
\* were; and each allocation finds the cursor the one before it wrote.
C29_OnlyAllocatorMovesCursor ==
    /\ [](/\ prog # NoProgram =>
                \A i \in DOMAIN wasm.code : \A c \in DOMAIN wasm.code[i].body :
                    wasm.code[i].body[c].op \in GeneratorOps
          /\ \A i \in DOMAIN hcall.regions :
                i > 1 => hcall.regions[i].ptr = hcall.regions[i - 1].next)
    /\ [][ /\ (host.globals # <<>> /\ host'.globals # host.globals) =>
                 (HostCallStep /\ hcall'.name \in {"to_str", "concat"})
           /\ (HostCallStep /\ hcall'.name = "log") =>
                 (host'.globals = host.globals /\ host'.memory = host.memory) ]_vars

\* Between two allocations the guest called env.log and ran instructions,
\* and the second allocation started where the first had left the cursor.
C29_Witness ==
    /\ hcall.n = 3
    /\ hcall.name = "to_str"
    /\ Len(hcall.regions) = 2
    /\ hcall.regions[1].next = 64
    /\ hcall.ret[1] = 64
    /\ hcall.before.stdout # <<>>

\* The end of the byte range of a data segment.
SegEnd(seg) == seg.ptr + Len(seg.bytes)

\* Linear memory after the data segments emitted so far are copied into it.
DataImage == init_data(EmptyMap, gen.data, 1)

\* The range a Blob designates holds exactly the bytes of the text.
HoldsText(blob, text) ==
    /\ blob.len = Len(text)
    /\ read_slice(DataImage, blob.ptr, blob.len) = text

\* C30: after any sequence of push_text calls from cursor 0 and an empty
\* pool, the data segments emitted so far have pairwise disjoint ranges in
\* increasing order, the last call did not decrease the cursor nor alter a
\* segment, the cursor is the end of the last segment, and every Blob in the
\* pool and every Blob a call returned holds exactly the bytes of its text.
C30_PoolLayout ==
    /\ \A i, j \in DOMAIN gen.data : i < j => SegEnd(gen.data[i]) <= gen.data[j].ptr
    /\ call.n > 0 =>
          /\ gen.data_idx >= call.before.data_idx
          /\ Len(gen.data) >= Len(call.before.data)
          /\ SubSeq(gen.data, 1, Len(call.before.data)) = call.before.data
    /\ gen.data_idx = IF gen.data = <<>> THEN 0 ELSE SegEnd(gen.data[Len(gen.data)])
    /\ \A t \in DOMAIN gen.string_interner : HoldsText(gen.string_interner[t], t)
    /\ \A i \in DOMAIN gen.uses : HoldsText(gen.uses[i].blob, gen.uses[i].text)

\* Three placements: a text, a second text right after it, and the second
\* text again at alignment 16 after a gap; the Blob the second call
\* returned is no longer the one in the pool.
C30_Witness ==
    /\ Len(gen.data) = 3
    /\ Len(gen.uses) = 3
    /\ gen.uses[1] = [text |-> <<"a">>, blob |-> Blob(0, 1)]
    /\ gen.uses[2] = [text |-> <<"a", "b">>, blob |-> Blob(1, 2)]
    /\ gen.uses[3] = [text |-> <<"a", "b">>, blob |-> Blob(16, 2)]
    /\ gen.string_interner[<<"a", "b">>] # gen.uses[2].blob
    /\ gen.data_idx = 18

=============================================================================
